---------------------------- MODULE Spec2Model ----------------------------
(***************************************************************************)
(* A model of the request/response pipeline of tinywebserver:              *)
(*                                                                         *)
(*   - http::RequestParser::consume_from_fd, the incremental parser, with  *)
(*     Connection::parse_request_from_fd and Request::is_keepalive         *)
(*     (specification SpecParser);                                         *)
(*   - http::Server (start, acceptor, close_client, on_read, on_write)     *)
(*     over the Epoller and the ConnectionManger (specification Spec);     *)
(*   - the library classes on their own: BufferVector (SpecBuffer),        *)
(*     HandlerManager (SpecHandlers), Timer<ID> over KVHeap (SpecTimer)    *)
(*     and ThreadPool (SpecPool, and SpecPoolFair with fair scheduling).   *)
(*                                                                         *)
(* Input is a sequence of atoms.  An atom is a maximal run of bytes that   *)
(* the grammar never splits (a method name, a header name, "HTTP/"), or a  *)
(* single byte (SP, ":", CR, LF, a body byte).  Strings of the program are *)
(* sequences of atoms.                                                     *)
(***************************************************************************)
EXTENDS Integers, Sequences, FiniteSets, TLC

(***************************************************************************)
(* Bounds of the model.                                                    *)
(***************************************************************************)
\* Loop iterations of one consume_from_fd call the model follows.
MaxIters == 12
\* Connections peers open while the server runs.
MaxAccepts == 2
\* Client fds the process can hold.
MaxFds == 4
\* Handler runs the worker pool holds at a time.
MaxTasks == 2
\* Atoms one read() returns at most (no stream of the model is longer).
MaxRead == 16
\* Bytes of a response.
MaxResp == 2
\* Calls of Server::stop in one behaviour.
MaxStops == 1
\* Calls made on the BufferVector objects in one behaviour.
MaxOps == 3
\* Bytes one write(src, n) or read(dest, n) asks for at most.
MaxWrite == 2
\* Characters of a pattern handed to HandlerManager::handle at most.
MaxPattern == 3
\* Calls of HandlerManager::handle in one behaviour.
MaxHandles == 2
\* Bytes of a block handed to write(buffer, size, deleter) at most.
MaxBlock == 3
\* Calls of add, update, cancel, start and stop made on the Timer in one
\* behaviour.
MaxTimerCalls == 4
\* Ticks of the clock after the Timer is made.
MaxTime == 1
\* Callbacks the scheduler thread starts in one behaviour.
MaxRuns == 3
\* Threads of the ThreadPool (the thread_count handed to its constructor).
PoolThreads == 2
\* Calls of ThreadPool::push_task in one behaviour.
MaxPush == 2
\* Calls of ThreadPool::pause in one behaviour.
MaxPauses == 1
\* Calls of ThreadPool::reset in one behaviour.
MaxResets == 1
\* Capacities a Buffer is constructed with (from 1).
MaxCap == 2
\* Bytes asked of ensure_writeable, read or written in one call on a Buffer.
MaxNeed == 3
\* Calls on the Buffer in one behaviour.
MaxFlatCalls == 3
\* Keys of a KVHeap checked on its own (from 1).
MaxKeys == 6
\* Run times of the Tasks in it (from 1).
MaxWhen == 2
\* Calls on the KVHeap in one behaviour.
MaxHeapCalls == 7
\* The alloc_count (min_count) a ResourcePool is made with.
MaxAlloc == 2
\* The max_count a ResourcePool is made with or set to (from 1).
MaxResources == 2
\* Calls on the ResourcePool in one behaviour.
MaxResourceCalls == 4
\* The longest text handed to INI::parse and parse_form.
MaxText == 3
\* Iterations of a parse loop followed in one call.
MaxTextIters == 4

(***************************************************************************)
(* Atoms.                                                                  *)
(***************************************************************************)
CR == "CR"
LF == "LF"
SP == "SP"
COLON == ":"
HTTP_SLASH == "HTTP/"

\* const.h: CRLF, the line separator consume_from_fd searches for.
CRLF == <<CR, LF>>

\* A null unique_ptr / pointer, and a pointer to x.
nullptr == <<>>
Ptr(x) == <<x>>
Deref(p) == p[1]

\* emplace(pos, e) of a sequence container: e goes before position k.
InsertAt(seq, k, e) == SubSeq(seq, 1, k - 1) \o <<e>> \o SubSeq(seq, k, Len(seq))

SetMin(S) == CHOOSE x \in S : \A y \in S : x <= y

\* std::string_view::find(CRLF): the first position of CR LF, 0 for npos.
Find(content) ==
  LET hits == {i \in 1..(Len(content) - 1) :
                 content[i] = CR /\ content[i + 1] = LF}
  IN  IF hits = {} THEN 0 ELSE SetMin(hits)

(***************************************************************************)
(* Request (request.h, request.cpp) and Header (header.h).                 *)
(***************************************************************************)
\* Header is an unordered_map<string, string>.
EmptyHeader == [k \in {} |-> <<>>]

\* unordered_map::emplace: an existing key keeps its value.
emplace(header, name, value) ==
  IF name \in DOMAIN header THEN header ELSE header @@ (name :> value)

CONTENT_LENGTH == <<"Content-Length">>

\* A default-constructed Request at address addr.
NewRequest(addr) ==
  [addr |-> addr, method_ |-> "UNKNOWN", uri_ |-> <<>>, version_ |-> <<>>,
   header_ |-> EmptyHeader, body_ |-> <<>>]

\* toupper(const std::string&): `auto ret = str; return toupper(str);` calls
\* the same overload again with the same argument: it never returns.
toupper(str) == [returns |-> FALSE, value |-> str]

MethodTable ==
  (<<"GET">> :> "GET") @@ (<<"POST">> :> "POST") @@ (<<"HEAD">> :> "HEAD") @@
  (<<"PUT">> :> "PUT") @@ (<<"DELETE">> :> "DELETE") @@
  (<<"TRACE">> :> "TRACE") @@ (<<"CONNECT">> :> "CONNECT")

\* Request::str2Method: looks toupper(str) up in the method table.
str2Method(str) ==
  LET s == toupper(str)
  IN  IF ~s.returns THEN [returns |-> FALSE, value |-> "UNKNOWN"]
      ELSE [returns |-> TRUE,
            value |-> IF s.value \in DOMAIN MethodTable
                      THEN MethodTable[s.value] ELSE "UNKNOWN"]

\* Request::is_keepalive: looks the header "Connnection" up.
is_keepalive(req) ==
  IF <<"Connnection">> \notin DOMAIN req.header_ THEN FALSE
  ELSE req.header_[<<"Connnection">>] = <<"keep-alive">>
       /\ req.version_ = <<"1.1">>

(***************************************************************************)
(* Parser (parser.cpp) and RequestParser (request_parser.cpp).             *)
(***************************************************************************)
\* RequestParser::parse_request_line, regex ^([^ ]*) ([^ ]*) HTTP/([^ ]*)$ :
\* exactly two SP, the second followed by HTTP/.
parse_request_line(line, obj) ==
  LET sp == {i \in 1..Len(line) : line[i] = SP}
      s1 == SetMin(sp)
      s2 == SetMin(sp \ {s1})
      matched == /\ Cardinality(sp) = 2
                 /\ s2 + 1 <= Len(line)
                 /\ line[s2 + 1] = HTTP_SLASH
  IN  IF ~matched THEN [returns |-> TRUE, ok |-> FALSE, obj |-> obj]
      ELSE LET m == str2Method(SubSeq(line, 1, s1 - 1))
               o == [obj EXCEPT !.method_ = m.value,
                                !.uri_ = SubSeq(line, s1 + 1, s2 - 1),
                                !.version_ = SubSeq(line, s2 + 2, Len(line))]
           IN  IF ~m.returns THEN [returns |-> FALSE, ok |-> FALSE, obj |-> obj]
               ELSE [returns |-> TRUE, ok |-> m.value # "UNKNOWN", obj |-> o]

\* Parser::parse_header, regex ^([^:]*): ?(.*)$ : the name ends at the first
\* ":", one SP after it is skipped, the rest is the value; "." matches no
\* line terminator.
parse_header(line, header) ==
  LET cs == {i \in 1..Len(line) : line[i] = COLON}
      c == SetMin(cs)
      v == IF c + 1 <= Len(line) /\ line[c + 1] = SP THEN c + 2 ELSE c + 1
  IN  IF cs = {} \/ \E i \in (c + 1)..Len(line) : line[i] \in {CR, LF}
      THEN [ok |-> FALSE, header |-> header]
      ELSE [ok |-> TRUE,
            header |-> emplace(header, SubSeq(line, 1, c - 1),
                               SubSeq(line, v, Len(line)))]

Digits == ("0" :> 0) @@ ("1" :> 1) @@ ("2" :> 2) @@ ("3" :> 3)

\* std::stoul on a header value: the number its leading digits spell;
\* std::invalid_argument when it starts with no digit.
stoul(value) ==
  IF value # <<>> /\ value[1] \in DOMAIN Digits
  THEN [throws |-> FALSE, value |-> Digits[value[1]]]
  ELSE [throws |-> TRUE, value |-> 0]

\* RequestParser::is_error_state.
is_error_state(state) ==
  state \in {"ERROR_READ_FD", "ERROR_REQUEST_LINE", "ERROR_HEADER",
             "ERROR_NO_EMPTY_LINE", "ERROR_BODY_LENGTH"}

(***************************************************************************)
(* The parser object: state_, obj_, req_body_size_, and buf_ as the span   *)
(* rd..wr of the connection's byte stream (buf_.view() is the atoms        *)
(* rd+1..wr; update_read_ptr and update_write_ptr move rd and wr).         *)
(* nalloc counts the Request objects made, and numbers them.               *)
(***************************************************************************)
NewParser ==
  [state_ |-> "INIT", obj_ |-> nullptr, req_body_size_ |-> 0,
   rd |-> 0, wr |-> 0, nalloc |-> 0]

\* Buffer::view.
view(p, stream) == SubSeq(stream, p.rd + 1, p.wr)

\* Buffer::readable_size.
readable_size(p) == p.wr - p.rd

\* Buffer::update_read_ptr: step is cut to readable_size().
update_read_ptr(p, step) ==
  [p EXCEPT !.rd = p.rd + (IF step < readable_size(p) THEN step
                           ELSE readable_size(p))]

NoRet == [state |-> "none", req |-> nullptr]

Continue(p) == [p |-> p, ctl |-> "loop", ret |-> NoRet]
Return(p, state, req) ==
  [p |-> p, ctl |-> "ret", ret |-> [state |-> state, req |-> req]]

\* case State::INIT
CaseInit(p) ==
  Continue([p EXCEPT
    !.obj_ = IF p.obj_ = nullptr THEN Ptr(NewRequest(p.nalloc + 1))
             ELSE Ptr(NewRequest(Deref(p.obj_).addr)),
    !.nalloc = IF p.obj_ = nullptr THEN p.nalloc + 1 ELSE p.nalloc,
    !.state_ = "PARSING_REQUEST_LINE"])

\* case State::PARSING_REQUEST_LINE
CaseRequestLine(p, content) ==
  LET pos == Find(content)
      line == SubSeq(content, 1, pos - 1)
      q == update_read_ptr(p, Len(line) + 2)
      r == parse_request_line(line, Deref(p.obj_))
  IN  IF pos = 0 THEN Return(p, p.state_, nullptr)
      ELSE IF ~r.returns THEN [p |-> q, ctl |-> "diverged", ret |-> NoRet]
      ELSE IF ~r.ok
        THEN Return([q EXCEPT !.obj_ = Ptr(r.obj),
                              !.state_ = "ERROR_REQUEST_LINE"],
                    "ERROR_REQUEST_LINE", nullptr)
      ELSE Continue([q EXCEPT !.obj_ = Ptr(r.obj),
                              !.state_ = "PARSING_REQUEST_HEADER"])

\* case State::PARSING_REQUEST_HEADER
CaseRequestHeader(p, content) ==
  LET pos == Find(content)
      line == SubSeq(content, 1, pos - 1)
      q == update_read_ptr(p, Len(line) + 2)
      r == parse_header(line, Deref(p.obj_).header_)
  IN  IF pos = 0 THEN Return(p, p.state_, nullptr)
      ELSE IF line = <<>>
        THEN Continue([q EXCEPT !.state_ = "BEFORE_PARSING_REQUST_BODY"])
      ELSE IF ~r.ok
        THEN Return([q EXCEPT !.state_ = "ERROR_HEADER"],
                    "ERROR_HEADER", nullptr)
      ELSE Continue([q EXCEPT !.obj_ =
                       Ptr([Deref(p.obj_) EXCEPT !.header_ = r.header])])

\* A variant of the case below that reads a missing Content-Length as 0.
CaseBeforeBody_MissingIsZero(p) ==
  LET header == Deref(p.obj_).header_
      n == stoul(header[CONTENT_LENGTH])
  IN  IF CONTENT_LENGTH \notin DOMAIN header
        THEN Continue([p EXCEPT !.req_body_size_ = 0,
                                !.state_ = "PARSING_REQUEST_BODY"])
      ELSE IF n.throws THEN [p |-> p, ctl |-> "threw", ret |-> NoRet]
      ELSE Continue([p EXCEPT !.req_body_size_ = n.value,
                              !.state_ = "PARSING_REQUEST_BODY"])

\* case State::BEFORE_PARSING_REQUST_BODY
CaseBeforeBody(p) ==
  LET header == Deref(p.obj_).header_
      n == stoul(header[CONTENT_LENGTH])
  IN  IF CONTENT_LENGTH \notin DOMAIN header
        THEN Return([p EXCEPT !.state_ = "ERROR_BODY_LENGTH"],
                    "ERROR_BODY_LENGTH", nullptr)
      ELSE IF n.throws THEN [p |-> p, ctl |-> "threw", ret |-> NoRet]
      ELSE Continue([p EXCEPT !.req_body_size_ = n.value,
                              !.state_ = "PARSING_REQUEST_BODY"])

\* A variant of the case below that returns the request and keeps it.
CaseComplete_Keeps(p) == Return(p, "COMPLETE", p.obj_)

\* case State::COMPLETE
CaseComplete(p) ==
  Return([p EXCEPT !.state_ = "INIT", !.obj_ = nullptr], "COMPLETE", p.obj_)

\* A variant of the case below that leaves bytes after the body in buf_.
CaseRequestBody_Lenient(p, stream) ==
  LET body == Deref(p.obj_).body_
      want == p.req_body_size_ - Len(body)
      readn == IF want < readable_size(p) THEN want ELSE readable_size(p)
      body2 == body \o SubSeq(stream, p.rd + 1, p.rd + readn)
      q == [update_read_ptr(p, readn) EXCEPT
              !.obj_ = Ptr([Deref(p.obj_) EXCEPT !.body_ = body2])]
  IN  IF Len(body2) < p.req_body_size_ THEN Continue(q)
      ELSE Continue([q EXCEPT !.state_ = "COMPLETE"])

\* case State::PARSING_REQUEST_BODY; it has no final break, so a body longer
\* than req_body_size_ falls through to case State::COMPLETE.
CaseRequestBody(p, stream) ==
  LET body == Deref(p.obj_).body_
      want == p.req_body_size_ - Len(body)
      readn == IF want < readable_size(p) THEN want ELSE readable_size(p)
      body2 == body \o SubSeq(stream, p.rd + 1, p.rd + readn)
      q == [update_read_ptr(p, readn) EXCEPT
              !.obj_ = Ptr([Deref(p.obj_) EXCEPT !.body_ = body2])]
  IN  IF Len(body2) < p.req_body_size_ THEN Continue(q)
      ELSE IF Len(body2) = p.req_body_size_
        THEN IF readable_size(q) # 0
               THEN Return([q EXCEPT !.state_ = "ERROR_BODY_LENGTH"],
                           "ERROR_BODY_LENGTH", nullptr)
               ELSE Continue([q EXCEPT !.state_ = "COMPLETE"])
      ELSE CaseComplete(q)

\* One iteration of the parse loop `for (bool stop = false; !stop;)`.
ParseIter(p, stream) ==
  CASE p.state_ = "INIT" -> CaseInit(p)
    [] p.state_ = "PARSING_REQUEST_LINE" ->
         CaseRequestLine(p, view(p, stream))
    [] p.state_ = "PARSING_REQUEST_HEADER" ->
         CaseRequestHeader(p, view(p, stream))
    [] p.state_ = "BEFORE_PARSING_REQUST_BODY" -> CaseBeforeBody(p)
    [] p.state_ = "PARSING_REQUEST_BODY" -> CaseRequestBody(p, stream)
    [] p.state_ = "COMPLETE" -> CaseComplete(p)
    [] OTHER -> Return(p, p.state_, nullptr)

\* The read loop of consume_from_fd: n atoms were read in all; with nothing
\* read and errno other than EAGAIN the call returns ERROR_READ_FD at once.
ReadFd(p, n, errno) ==
  IF n <= 0 /\ errno # "EAGAIN"
  THEN Return(p, "ERROR_READ_FD", nullptr)
  ELSE Continue([p EXCEPT !.wr = p.wr + n])

(***************************************************************************)
(* Byte streams a peer sends.                                              *)
(***************************************************************************)
RequestLine(m, u, v) == <<m, SP, u, SP, HTTP_SLASH, v>> \o CRLF
HeaderLine(n, v) == <<n, COLON, SP, v>> \o CRLF

\* What follows a request line: headers, the empty line, the body.
Tails ==
  { HeaderLine("Host", "x") \o HeaderLine("Content-Length", "0") \o CRLF,
    HeaderLine("Connection", "keep-alive")
      \o HeaderLine("Content-Length", "2") \o CRLF \o <<"a", "b">>,
    HeaderLine("Connnection", "keep-alive")
      \o HeaderLine("Content-Length", "0") \o CRLF,
    HeaderLine("Connection", "close")
      \o HeaderLine("Content-Length", "1") \o CRLF \o <<"a">>,
    HeaderLine("Host", "x") \o CRLF,
    <<"junk">> \o CRLF \o CRLF,
    HeaderLine("Content-Length", "x") \o CRLF,
    HeaderLine("Content-Length", "0")
      \o HeaderLine("Content-Length", "2") \o CRLF }

\* Whole requests, from the request line on.
Heads ==
  { RequestLine("GET", "/", "1.1") \o HeaderLine("Content-Length", "0") \o CRLF,
    <<"GET", SP, "/">> \o CRLF \o CRLF,
    RequestLine("BREW", "/", "1.1") \o CRLF,
    <<>> }

(***************************************************************************)
(* consume_from_fd as one call: the read loop, then the parse loop run to  *)
(* its end.  An iteration that continues and leaves the parser as it was   *)
(* is repeated for ever: the call does not return.                         *)
(***************************************************************************)
\* The parse loop at x, where r is what its next iteration gives.
LoopStep(x, r) ==
  IF x.ctl # "loop" THEN x
  ELSE IF r = x THEN [x EXCEPT !.ctl = "diverged"]
  ELSE r

\* The parse loop at x, one iteration on.
LoopNext(x, stream) == LoopStep(x, ParseIter(x.p, stream))

\* after[k] is the call after k iterations of the parse loop; MaxIters is
\* more than the iterations of any call that returns.
ParseLoop(p, stream) ==
  LET after[k \in 0..MaxIters] ==
        IF k = 0 THEN Continue(p) ELSE LoopNext(after[k - 1], stream)
  IN  after[MaxIters]

consume_from_fd(p, stream, n, errno) ==
  LET r == ReadFd(p, n, errno)
  IN  IF r.ctl = "ret" THEN r ELSE ParseLoop(r.p, stream)

(***************************************************************************)
(* HandlerManager (handler.cpp).  Handlers are named by their pattern.     *)
(***************************************************************************)
\* The table after Server::handle("/", h): pattern2handler_, and handlers_,
\* the patterns ending in "/" by descending length.
pattern2handler_ == {<<"/">>}
handlers_ == <<<<"/">>>>

starts_with(str, prefix) ==
  Len(prefix) <= Len(str) /\ SubSeq(str, 1, Len(prefix)) = prefix

\* HandlerManager::match: the exact pattern, else the first prefix pattern.
match(pattern) ==
  LET hits == {i \in DOMAIN handlers_ : starts_with(pattern, handlers_[i])}
  IN  IF pattern \in pattern2handler_ THEN Ptr(pattern)
      ELSE IF hits # {} THEN Ptr(handlers_[SetMin(hits)])
      ELSE nullptr

\* A HandlerManager with nothing registered: pattern2handler_ maps a pattern
\* to its handler, handlers_ holds <<pattern, handler>> pairs, and
\* default_handler_ is null or points to a handler.
NewHandlerManager ==
  [pattern2handler_ |-> <<>>, handlers_ |-> <<>>, default_handler_ |-> nullptr]

\* std::lower_bound(handlers_, pattern.size(), p.first.size() > value): the
\* first position whose pattern is not longer than size.
lower_bound(hs, size) ==
  SetMin({i \in 1..Len(hs) : ~(Len(hs[i][1]) > size)} \cup {Len(hs) + 1})

ends_with(str, c) == str # <<>> /\ str[Len(str)] = c

HM_handle_Appends(hm, pattern, handler) ==
  IF pattern = <<>> \/ handler = 0 \/ pattern \in DOMAIN hm.pattern2handler_
  THEN [hm |-> hm, returns |-> FALSE]
  ELSE [hm |-> [default_handler_ |-> hm.default_handler_,
                pattern2handler_ |-> hm.pattern2handler_
                                      @@ (pattern :> handler),
                handlers_ |-> IF ends_with(pattern, "/")
                              THEN Append(hm.handlers_, <<pattern, handler>>)
                              ELSE hm.handlers_],
        returns |-> TRUE]

\* HandlerManager::handle; handler 0 is the empty std::function.
HM_handle(hm, pattern, handler) ==
  IF pattern = <<>> \/ handler = 0 \/ pattern \in DOMAIN hm.pattern2handler_
  THEN [hm |-> hm, returns |-> FALSE]
  ELSE [hm |-> [default_handler_ |-> hm.default_handler_,
                pattern2handler_ |-> hm.pattern2handler_
                                      @@ (pattern :> handler),
                handlers_ |->
                  IF ends_with(pattern, "/")
                  THEN InsertAt(hm.handlers_,
                                lower_bound(hm.handlers_, Len(pattern)),
                                <<pattern, handler>>)
                  ELSE hm.handlers_],
        returns |-> TRUE]

\* HandlerManager::match on a table hm: the handler, or 0 for nullptr.
HM_match(hm, pattern) ==
  LET hits == {i \in DOMAIN hm.handlers_ :
                 starts_with(pattern, hm.handlers_[i][1])}
  IN  IF pattern \in DOMAIN hm.pattern2handler_
      THEN hm.pattern2handler_[pattern]
      ELSE IF hits # {} THEN hm.handlers_[SetMin(hits)][2]
      ELSE 0

\* HandlerManager::default_handle: default_handler_ points to a copy of the
\* handler handed, an empty std::function included.
HM_default_handle(hm, handler) ==
  [hm |-> [hm EXCEPT !.default_handler_ = Ptr(handler)], returns |-> TRUE]

\* Server::on_read from handler_mgr_.match(req->uri()) to the call of the
\* handler, on the table hm: the handler it invokes (0 when none), and
\* whether it closes the connection instead.
Dispatched(hm, uri) ==
  IF HM_match(hm, uri) = 0 THEN [invoked |-> 0, closed |-> TRUE]
  ELSE [invoked |-> HM_match(hm, uri), closed |-> FALSE]

(***************************************************************************)
(* Epoller (epoller.h) over the kernel's interest list: a registration is  *)
(* the event mask, the user data and whether it is armed (EPOLLONESHOT     *)
(* disarms it when an event is delivered, epoll_ctl MOD arms it again).    *)
(* A server state S is [conn_, epoll, open_fds, calls]; calls logs what a  *)
(* handler did, in order.                                                  *)
(***************************************************************************)
FlagBit ==
  ("EPOLLIN" :> 2^0) @@ ("EPOLLOUT" :> 2^2) @@ ("EPOLLERR" :> 2^3) @@
  ("EPOLLHUP" :> 2^4) @@ ("EPOLLRDHUP" :> 2^13) @@
  ("EPOLLONESHOT" :> 2^30)

\* The uint32_t an event mask is.
RECURSIVE EventBits(_)
EventBits(mask) ==
  IF mask = {} THEN 0
  ELSE LET f == CHOOSE x \in mask : TRUE
       IN  FlagBit[f] + EventBits(mask \ {f})

\* Server::listen_fd_event_ and Server::client_event_, as declared.
listen_fd_event_ == {"EPOLLRDHUP"}
\* A variant of client_event_ without EPOLLONESHOT.
client_event_LevelOnly == {"EPOLLRDHUP"}
client_event_ == {"EPOLLONESHOT", "EPOLLRDHUP"}

Registration(events, ptr) == [events |-> events, ptr |-> ptr, armed |-> TRUE]

Without(f, k) == [x \in DOMAIN f \ {k} |-> f[x]]

Log(S, call) == [S EXCEPT !.calls = Append(S.calls, call)]

\* Epoller::add.
EpollerAdd(S, fd, events, ptr) ==
  IF fd < 0 \/ fd \notin S.open_fds \/ fd \in DOMAIN S.epoll
  THEN [ok |-> FALSE, S |-> S]
  ELSE [ok |-> TRUE,
        S |-> [S EXCEPT !.epoll = S.epoll @@ (fd :> Registration(events, ptr))]]

\* Epoller::mod.
EpollerMod(S, fd, events, ptr) ==
  IF fd < 0 \/ fd \notin S.open_fds \/ fd \notin DOMAIN S.epoll
  THEN [ok |-> FALSE, S |-> Log(S, "mod failed")]
  ELSE [ok |-> TRUE,
        S |-> Log([S EXCEPT !.epoll[fd] = Registration(events, ptr)],
                  IF "EPOLLOUT" \in events THEN "mod EPOLLOUT"
                  ELSE IF "EPOLLIN" \in events THEN "mod EPOLLIN"
                  ELSE "mod")]

\* Epoller::del.
EpollerDel(S, fd) ==
  IF fd < 0 \/ fd \notin DOMAIN S.epoll THEN S
  ELSE [S EXCEPT !.epoll = Without(S.epoll, fd)]

\* ::close(fd): the kernel drops the fd from the interest list as well.
CloseFd(S, fd) ==
  [S EXCEPT !.open_fds = S.open_fds \ {fd}, !.epoll = Without(S.epoll, fd)]

(***************************************************************************)
(* Connection and ConnectionManger (connection.h).                         *)
(***************************************************************************)
\* IOVector, the gather view of a response: the bytes not yet written.
IOVector(n) == [bytes |-> n]

\* IOVector::update: the view advances by the bytes written.
IOVectorUpdate(bv, size) ==
  IF size > 0 THEN [bytes |-> bv.bytes - size] ELSE bv

\* Connection::Connection.
NewConnection(fd) ==
  [fd_ |-> fd, keep_alive_ |-> TRUE, req_parser_ |-> nullptr,
   resp_writer_ |-> nullptr, full_resp_ |-> nullptr, resp_ |-> IOVector(0)]

\* Connection::clear.
ConnectionClear(conn) ==
  [conn EXCEPT !.resp_writer_ = nullptr, !.req_parser_ = nullptr,
               !.full_resp_ = nullptr]

\* A pointer to a Connection is the key of its table entry; a pointer to a
\* Connection that was destroyed is the negated key.
Dangling(fd) == Ptr(0 - fd)

\* ConnectionManger::add: `if (it == conn_.end()) return nullptr;`, so an
\* absent fd is not inserted; for a present fd emplace leaves the entry as
\* it is and the Connection made for it is destroyed, which closes the fd.
ConnMgrAdd(S, fd) ==
  IF fd \notin DOMAIN S.conn_ THEN [ptr |-> nullptr, S |-> S]
  ELSE [ptr |-> Dangling(fd), S |-> CloseFd(S, fd)]

\* ConnectionManger::close: Connection::close on the entry, then erase.
ConnMgrClose(S, fd) ==
  IF fd \notin DOMAIN S.conn_ THEN S
  ELSE LET c == S.conn_[fd]
           T == IF c.fd_ = -1 THEN S ELSE CloseFd(S, c.fd_)
       IN  [T EXCEPT !.conn_ = Without(S.conn_, fd)]

(***************************************************************************)
(* Server (server.cpp).                                                    *)
(***************************************************************************)
\* Server::close_client: `conn_mgr_.close(client_event_)`, the event mask
\* where the fd belongs, then epoller_.del(client_fd).
close_client(S, client_fd) ==
  EpollerDel(ConnMgrClose(Log(S, "close_client"),
                          EventBits(client_event_)),
             client_fd)

\* Server::acceptor for the fd accept returned (the listen fd is level
\* triggered: one accept per call).  The Connection made for the call is a
\* temporary: it is destroyed, and with it the fd closed, before
\* epoller_.add runs.
acceptor(S, fd) ==
  LET A == [S EXCEPT !.open_fds = S.open_fds \cup {fd}]
      a == ConnMgrAdd(A, fd)
      B == CloseFd(a.S, fd)
  IN  EpollerAdd(B, fd, client_event_, a.ptr).S

\* How a handler run ends: it returns, never returns, or ends the process.
Ends(S, how, state, yielded) ==
  [S |-> S, how |-> how, state |-> state, yielded |-> yielded]

\* The parser Connection::parse_request_from_fd runs: req_parser_, made
\* when null (its buffer then starts at offset `at` of the socket's bytes).
ParserOf(c, at) ==
  IF c.req_parser_ = nullptr THEN [NewParser EXCEPT !.rd = at, !.wr = at]
  ELSE Deref(c.req_parser_)

\* Connection::parse_request_from_fd, given what consume_from_fd did (r).
ParsedRequest(c, r) ==
  [c EXCEPT !.req_parser_ = Ptr(r.p),
            !.keep_alive_ = IF r.ret.req # nullptr
                            THEN is_keepalive(Deref(r.ret.req)) ELSE @]

\* epoller_.mod(client_fd, client_event_ | ev) and, when it fails,
\* close_client(client_fd).
RearmOrClose(S, client_fd, ev, conn) ==
  LET m == EpollerMod(S, client_fd, client_event_ \cup {ev}, Ptr(conn))
  IN  IF m.ok THEN m.S ELSE close_client(m.S, client_fd)

\* The handler and Connection::make_response, with b bytes of response.
Responded(S, conn, b) ==
  Log(Log([S EXCEPT !.conn_[conn].full_resp_ = Ptr(b),
                    !.conn_[conn].resp_ = IOVector(b)],
          "handler"), "make_response")

\* Server::on_read from the return of parse_request_from_fd on: S holds the
\* Connection as the call left it, r is what consume_from_fd did.  ub says
\* what becomes of undefined behaviour: of the use of the null resp_writer_
\* (the process ends, or goes on as if it were a writer), and of a call that
\* does not return (the stack overflows and the process ends, or it spins).
\* An exception leaving consume_from_fd is caught nowhere: the process ends.
OnReadParsed(S, conn, client_fd, r, ub, b) ==
  IF r.ctl = "diverged"
    THEN Ends(S, IF ub = "crash" THEN "terminate" ELSE "never", "none", FALSE)
  ELSE IF r.ctl = "threw" THEN Ends(S, "terminate", "none", FALSE)
  ELSE IF is_error_state(r.ret.state)
    THEN Ends(close_client(S, client_fd), "returns", r.ret.state, FALSE)
  ELSE IF r.ret.req = nullptr
    THEN Ends(RearmOrClose(S, client_fd, "EPOLLIN", conn), "returns",
              r.ret.state, FALSE)
  ELSE IF match(Deref(r.ret.req).uri_) = nullptr
    THEN Ends(close_client(S, client_fd), "returns", r.ret.state, TRUE)
  ELSE IF S.conn_[conn].resp_writer_ = nullptr /\ ub = "crash"
    THEN Ends(S, "terminate", r.ret.state, TRUE)
  ELSE Ends(RearmOrClose(Responded(S, conn, b), client_fd, "EPOLLOUT", conn),
            "returns", r.ret.state, TRUE)

\* Server::on_read on the Connection *conn, given what consume_from_fd did.
OnRead(S, conn, r, ub, b) ==
  OnReadParsed([S EXCEPT !.conn_[conn] = ParsedRequest(@, r)], conn,
               S.conn_[conn].fd_, r, ub, b)

\* Server::on_read on the Connection *conn, whose socket holds stream and
\* gives n atoms (or errno) to read().
on_read(S, conn, stream, at, n, errno, ub, b) ==
  OnRead(S, conn,
         consume_from_fd(ParserOf(S.conn_[conn], at), stream, n, errno),
         ub, b)

\* Server::on_write from bv.update(size) on; bytes is bv.bytes() after it.
OnWriteUpdated(S, conn, client_fd, bytes, keep_alive, size, errno) ==
  IF bytes = 0
    THEN IF keep_alive
           THEN Ends(EpollerMod(
                       Log([S EXCEPT !.conn_[conn] = ConnectionClear(@)],
                           "clear"),
                       client_fd, client_event_ \cup {"EPOLLIN"}, Ptr(conn)).S,
                     "returns", "none", FALSE)
           ELSE Ends(close_client(S, client_fd), "returns", "none", FALSE)
  ELSE IF size < 0 /\ errno # "EAGAIN"
    THEN Ends(close_client(S, client_fd), "returns", "none", FALSE)
  ELSE Ends(EpollerMod(S, client_fd, client_event_ \cup {"EPOLLOUT"},
                       Ptr(conn)).S,
            "returns", "none", FALSE)

\* Server::on_write on the Connection *conn; writev returned size, and set
\* errno when size is -1.
on_write(S, conn, size, errno) ==
  OnWriteUpdated(
    [S EXCEPT !.conn_[conn].resp_ = IOVectorUpdate(@, size)], conn,
    S.conn_[conn].fd_, IOVectorUpdate(S.conn_[conn].resp_, size).bytes,
    S.conn_[conn].keep_alive_, size, errno)

(***************************************************************************)
(* BufferVector (buffer_vector.h).  data_ is the list of Segments, an      *)
(* iterator is the position of its element (Len(data_) + 1 is end()).  A   *)
(* Segment's memory is mem; data names the block: 0 a block of the heap    *)
(* the Segment allocated, another number a block the caller handed in.     *)
(* released lists the handed-in blocks whose deleter this object has       *)
(* invoked, and fault says that a memory access of its code has faulted.   *)
(***************************************************************************)
Min(a, b) == IF a < b THEN a ELSE b

\* Segment(size_t cap): a block of the heap, its bytes not yet written.
NewSegment(cap) ==
  [data |-> 0, cap |-> cap, off |-> 0, size |-> cap, readonly |-> FALSE,
   deleter |-> TRUE, mem |-> [i \in 1..cap |-> 0]]

\* Segment(char* data, size_t cap, deleter, readonly).
ForeignSegment(id, bytes, readonly) ==
  [data |-> id, cap |-> Len(bytes), off |-> 0, size |-> Len(bytes),
   readonly |-> readonly, deleter |-> TRUE, mem |-> bytes]

\* ~Segment / Segment::destroy: the deleter runs if there is one.  (A
\* Segment that was moved from has none: the move takes the std::function.)
Destroyed(seg) ==
  IF seg.deleter /\ seg.data # 0 THEN <<seg.data>> ELSE <<>>

MoveReleases_KeepsDeleter(seg) == Destroyed(seg)

\* Segment(Segment&& obj): the new Segment takes obj's deleter, then
\* obj.destroy() runs on obj, whose std::function is empty by then.
MoveReleases(seg) == Destroyed([seg EXCEPT !.deleter = FALSE])

\* ~Segment for each Segment of a list.
DestroyedAll(segs) ==
  LET rel[k \in 0..Len(segs)] ==
        IF k = 0 THEN <<>> ELSE rel[k - 1] \o Destroyed(segs[k])
  IN  rel[Len(segs)]

\* Segment::clear.
SegmentClear(seg) ==
  IF seg.readonly THEN [ok |-> FALSE, seg |-> seg]
  ELSE [ok |-> TRUE, seg |-> [seg EXCEPT !.off = 0, !.size = seg.cap]]

\* Segment::offset.
SegmentOffset(seg, offset) ==
  IF seg.off + offset < 0 \/ seg.off + offset > seg.cap THEN seg
  ELSE [seg EXCEPT !.off = seg.off + offset]

\* The byte at begin + at of a Segment; past the block it is not the
\* Segment's memory (-1).
ByteAt(seg, at) ==
  IF seg.off + at + 1 \in 1..seg.cap THEN seg.mem[seg.off + at + 1] ELSE -1

\* Segment::read: the cnt bytes from begin + offset on.
SegmentRead(seg, cnt, offset) == [i \in 1..cnt |-> ByteAt(seg, offset + i - 1)]

\* Segment::write: std::copy of cnt bytes to begin + offset (the bytes that
\* land past the block are not kept).
SegmentWrite(seg, src, cnt, offset) ==
  [seg EXCEPT !.mem =
     [i \in 1..seg.cap |->
        IF i - seg.off - offset \in 1..cnt THEN src[i - seg.off - offset]
        ELSE seg.mem[i]]]

\* An access of cnt > 0 bytes at begin + offset that leaves the block.
OutOfBlock(seg, cnt, offset) == cnt > 0 /\ seg.off + offset + cnt > seg.cap

\* operator iovec, and the iovecs get_read_iovec builds: the block, the
\* position in it, the length, and the bytes there now.
Iovec(seg, at, len) ==
  [data |-> seg.data, iov_base |-> seg.off + at, iov_len |-> len,
   bytes |-> SegmentRead(seg, len, at)]

\* BufferVector::add_segment: emplace at end() leaves it_write_ at the new
\* Segment, which is the position end() had.
add_segment(bv, n) ==
  LET cnt == IF bv.it_write_ = Len(bv.data_) + 1 /\ n = 0 THEN 1 ELSE n
  IN  [bv EXCEPT !.data_ = bv.data_ \o [i \in 1..cnt |-> NewSegment(bv.cap_)]]

\* BufferVector(size_t capacity).
NewBufferVector(capacity) ==
  add_segment([data_ |-> <<>>, cap_ |-> capacity, n_read_ |-> 0,
               n_write_ |-> 0, it_write_ |-> 1, released |-> <<>>,
               fault |-> FALSE], 1)

\* The sizes of the Segments at positions from..to, summed.
SumSizes(segs, from, to) ==
  LET sum[k \in (from - 1)..to] ==
        IF k < from THEN 0 ELSE sum[k - 1] + segs[k].size
  IN  IF to < from THEN 0 ELSE sum[to]

\* BufferVector::writeable_size.
writeable_size(bv) ==
  IF bv.data_ = <<>> THEN 0
  ELSE bv.data_[bv.it_write_].size - bv.n_write_
       + SumSizes(bv.data_, bv.it_write_ + 1, Len(bv.data_))

\* BufferVector::readable_empty.
readable_empty(bv) ==
  bv.data_ = <<>> \/ (bv.it_write_ = 1 /\ bv.n_write_ = bv.n_read_)

BV_readable_size_CountsRead(bv) ==
  IF bv.data_ = <<>> THEN 0
  ELSE SumSizes(bv.data_, 1, bv.it_write_ - 1) + bv.n_write_

\* BufferVector::readable_size.
BV_readable_size(bv) ==
  IF bv.data_ = <<>> THEN 0
  ELSE SumSizes(bv.data_, 1, bv.it_write_ - 1) + bv.n_write_ - bv.n_read_

\* BufferVector::forward_writer.
forward_writer(bv) ==
  IF bv.n_write_ = 0 THEN bv
  ELSE IF bv.it_write_ + 1 = Len(bv.data_) + 1
    THEN add_segment([bv EXCEPT !.it_write_ = @ + 1, !.n_write_ = 0], 1)
  ELSE [bv EXCEPT !.it_write_ = @ + 1, !.n_write_ = 0]

\* What moving each Segment of a list releases.
MovesRelease(segs) ==
  LET rel[k \in 0..Len(segs)] ==
        IF k = 0 THEN <<>> ELSE rel[k - 1] \o MoveReleases(segs[k])
  IN  rel[Len(segs)]

\* BufferVector::forward_reader: the front Segment is moved out and popped;
\* it goes to the back if it can be cleared, else it is destroyed.  The
\* iterator it_write_ stays on its element, one position down.
forward_reader(bv) ==
  LET c == SegmentClear(Head(bv.data_))
  IN  [bv EXCEPT
         !.data_ = IF c.ok THEN Append(Tail(bv.data_), c.seg)
                   ELSE Tail(bv.data_),
         !.released = @ \o MoveReleases(Head(bv.data_))
                        \o (IF c.ok THEN MoveReleases(c.seg)
                            ELSE Destroyed(Head(bv.data_))),
         !.n_read_ = 0,
         !.it_write_ = @ - 1]

\* BufferVector::mark_current_full_written.
mark_current_full_written(bv) ==
  IF bv.data_ = <<>> \/ bv.n_write_ = 0 THEN bv
  ELSE forward_writer([bv EXCEPT !.data_[bv.it_write_].size = bv.n_write_])

\* BufferVector::ensure_writeable.
ensure_writeable(bv, size) ==
  IF writeable_size(bv) > size THEN bv
  ELSE add_segment(bv, ((size - writeable_size(bv)) \div bv.cap_) + 1)

\* cnt = std::min(size, this->size - offset), in size_t.
SegmentCount(seg, size, offset) ==
  IF seg.size >= offset THEN Min(size, seg.size - offset) ELSE size

\* One round of the loop of BufferVector::read, x = [bv, size, dest].  A
\* copy that leaves the block faults, or goes on with what lies there.
ReadIter(x, ub) ==
  LET cnt == SegmentCount(Head(x.bv.data_), x.size, x.bv.n_read_) IN
  IF x.size = 0 \/ x.bv.fault THEN x
  ELSE IF OutOfBlock(Head(x.bv.data_), cnt, x.bv.n_read_) /\ ub = "fault"
    THEN [x EXCEPT !.bv.fault = TRUE]
  ELSE [bv |-> IF x.bv.n_read_ + cnt = Head(x.bv.data_).size
               THEN forward_reader(x.bv)
               ELSE [x.bv EXCEPT !.n_read_ = @ + cnt],
        size |-> x.size - cnt,
        dest |-> x.dest
                 \o SegmentRead(Head(x.bv.data_), cnt, x.bv.n_read_)]

\* BufferVector::read(char* dest, size_t size): the buffer afterwards, and
\* the bytes copied to dest.
BV_read(bv, size, ub) ==
  LET read_size == Min(size, BV_readable_size(bv))
      last == read_size + Len(bv.data_)
      after[k \in 0..last] ==
        IF k = 0 THEN [bv |-> bv, size |-> read_size, dest |-> <<>>]
        ELSE ReadIter(after[k - 1], ub)
  IN  after[last]

\* One round of the loop of BufferVector::write, x = [bv, src].  A copy into
\* a block handed in as readonly, or one that leaves the block, faults or
\* goes on.
WriteIter(x, ub) ==
  LET seg == x.bv.data_[x.bv.it_write_]
      cnt == SegmentCount(seg, Len(x.src), x.bv.n_write_) IN
  IF x.src = <<>> \/ x.bv.fault THEN x
  ELSE IF (seg.readonly \/ OutOfBlock(seg, cnt, x.bv.n_write_))
          /\ ub = "fault"
    THEN [x EXCEPT !.bv.fault = TRUE]
  ELSE [bv |-> IF x.bv.n_write_ + cnt = seg.size
               THEN forward_writer(
                      [x.bv EXCEPT
                         !.data_[x.bv.it_write_] =
                            SegmentWrite(seg, x.src, cnt, x.bv.n_write_),
                         !.n_write_ = @ + cnt])
               ELSE [x.bv EXCEPT
                       !.data_[x.bv.it_write_] =
                          SegmentWrite(seg, x.src, cnt, x.bv.n_write_),
                       !.n_write_ = @ + cnt],
        src |-> SubSeq(x.src, cnt + 1, Len(x.src))]

\* BufferVector::write(const char* src, size_t size).
BV_write(bv, src, ub) ==
  LET after[k \in 0..Len(src)] ==
        IF k = 0 THEN [bv |-> ensure_writeable(bv, Len(src)), src |-> src]
        ELSE WriteIter(after[k - 1], ub)
  IN  after[Len(src)].bv

Reverse(seq) == [i \in 1..Len(seq) |-> seq[Len(seq) + 1 - i]]

\* BufferVector::write(char* buffer, size_t size, deleter, readonly):
\* emplace puts the Segment before it_write_ and returns its position, which
\* becomes it_write_.
BV_write_foreign(bv, id, bytes, readonly) ==
  forward_writer(
    [mark_current_full_written(bv) EXCEPT
       !.data_ = InsertAt(@, mark_current_full_written(bv).it_write_,
                          ForeignSegment(id, bytes, readonly)),
       !.released = @ \o MoveReleases(ForeignSegment(id, bytes, readonly))])

\* The source of write(BufferVector&) with its front Segment offset and the
\* Segment being written cut to what was written.
SealedSource(buffer) ==
  LET b == [buffer EXCEPT
              !.data_[1] = SegmentOffset(@, buffer.n_read_)]
  IN  IF buffer.n_write_ = 0 THEN b
      ELSE [b EXCEPT !.data_[buffer.it_write_].size =
                        IF buffer.it_write_ = 1
                        THEN buffer.n_write_ - buffer.n_read_
                        ELSE buffer.n_write_]

\* it_end of write(BufferVector&).
SourceEnd(buffer) ==
  IF buffer.n_write_ # 0 THEN buffer.it_write_ + 1 ELSE buffer.it_write_

\* BufferVector::write(BufferVector& buffer): each Segment before it_end is
\* emplaced before it_write_, which is set to it, and popped off the source.
BV_write_buffer(this, buffer) ==
  LET t == mark_current_full_written(this)
      s == SealedSource(buffer)
      it_end == SourceEnd(buffer)
      rest == SubSeq(s.data_, it_end, Len(s.data_))
  IN  IF readable_empty(buffer) THEN [this |-> this, buffer |-> buffer]
      ELSE [this |->
              forward_writer(
                [t EXCEPT !.data_ =
                   SubSeq(t.data_, 1, t.it_write_ - 1)
                   \o Reverse(SubSeq(s.data_, 1, it_end - 1))
                   \o SubSeq(t.data_, t.it_write_, Len(t.data_)),
                      !.released =
                   @ \o MovesRelease(SubSeq(s.data_, 1, it_end - 1))]),
            buffer |->
              add_segment([s EXCEPT !.data_ = rest, !.n_read_ = 0,
                                    !.n_write_ = 0, !.it_write_ = 1],
                          IF rest = <<>> THEN 1 ELSE 0)]

\* BufferVector::clear: the Segments that cannot be cleared are erased.
BV_clear(bv) ==
  LET kept == SelectSeq(bv.data_, LAMBDA seg : SegmentClear(seg).ok)
      gone == SelectSeq(bv.data_, LAMBDA seg : ~SegmentClear(seg).ok)
  IN  [bv EXCEPT
         !.data_ = [i \in 1..Len(kept) |-> SegmentClear(kept[i]).seg],
         !.released = @ \o DestroyedAll(gone),
         !.n_read_ = 0, !.n_write_ = 0, !.it_write_ = 1]

\* BufferVector::destory, as ~BufferVector runs it.
destory(bv) ==
  [bv EXCEPT !.data_ = <<>>, !.released = @ \o DestroyedAll(bv.data_),
             !.n_read_ = 0, !.n_write_ = 0, !.it_write_ = 1]

\* BufferVector::get_read_iovec.
get_read_iovec(bv) ==
  IF readable_empty(bv) THEN <<>>
  ELSE IF bv.it_write_ = 1
    THEN <<Iovec(bv.data_[1], bv.n_read_, bv.n_write_ - bv.n_read_)>>
  ELSE <<Iovec(bv.data_[1], bv.n_read_, bv.data_[1].size - bv.n_read_)>>
       \o [i \in 1..(bv.it_write_ - 2) |->
             Iovec(bv.data_[i + 1], 0, bv.data_[i + 1].size)]
       \o (IF bv.n_write_ # 0
           THEN <<Iovec(bv.data_[bv.it_write_], 0, bv.n_write_)>>
           ELSE <<>>)

\* BufferVector::get_write_iovec: what is left of the Segment at it_write_,
\* then every Segment after it.
get_write_iovec(bv) ==
  IF writeable_size(bv) = 0 THEN <<>>
  ELSE <<Iovec(bv.data_[bv.it_write_], bv.n_write_,
               bv.data_[bv.it_write_].size - bv.n_write_)>>
       \o [i \in 1..(Len(bv.data_) - bv.it_write_) |->
             Iovec(bv.data_[bv.it_write_ + i], 0,
                   bv.data_[bv.it_write_ + i].size)]

(***************************************************************************)
(* KVHeap<ID, std::unique_ptr<Task>, decltype(cmp_)> and Timer<ID>.        *)
(*                                                                         *)
(* Durations and time points are integers (microseconds); a callback is a  *)
(* number, 0 being the empty std::function.  Indices of heap_ are those of *)
(* the code (from 0); heap_ itself is a sequence (from 1).                 *)
(***************************************************************************)
\* std::chrono::time_point(): the epoch of the clock.
Epoch == 0

\* Timer::Task::Task.  next_run_time is not in the initialiser list: it is
\* default-constructed.
NewTask(call_back, start_delay, times, interval) ==
  [call_back |-> call_back, start_delay |-> start_delay, times |-> times,
   interval |-> interval, next_run_time |-> Epoch]

\* Timer::Task::check(call_back, start_delay, times, interval).
check(call_back, start_delay, times, interval) ==
  IF call_back = 0 THEN FALSE
  ELSE IF start_delay < 0 THEN FALSE
  ELSE IF times = 0 THEN FALSE
  ELSE IF interval < 0 THEN FALSE
  ELSE TRUE

\* Timer::Task::need_schedule.
need_schedule(task) == task.times # 0 /\ task.call_back # 0

\* Timer::Task::reset_next_run_time.
reset_next_run_time(task, now) ==
  [task EXCEPT !.next_run_time = now + task.start_delay]

\* Timer::Task::reduce_times.
reduce_times(task) ==
  IF task.times > 0 THEN [task EXCEPT !.times = @ - 1] ELSE task

\* Timer::cmp_: the task that runs later is the greater one.
cmp_(lhs, rhs) == lhs.next_run_time > rhs.next_run_time

\* KVHeap::KVHeap.
NewKVHeap == [heap_ |-> <<>>, key2index_ |-> <<>>]

\* heap_[i].value and heap_[i].key.
ValueAt(h, i) == h.heap_[i + 1].value
KeyAt(h, i) == h.heap_[i + 1].key

left_chil(i) == 2 * i + 1
level_next(i) == i + 1
\* KVHeap::parent, asked only for i > 0.
parent(i) == (i - 1) \div 2

\* KVHeap::size, empty, count, top.
KV_size(h) == Len(h.heap_)
KV_empty(h) == Len(h.heap_) = 0
KV_count(h, key) == IF key \in DOMAIN h.key2index_ THEN 1 ELSE 0
KV_top(h) == ValueAt(h, 0)

\* key2index_[key] = index.
SetIndex(map, key, index) ==
  [k \in DOMAIN map \cup {key} |-> IF k = key THEN index ELSE map[k]]

\* key2index_.erase(key).
EraseIndex(map, key) == [k \in DOMAIN map \ {key} |-> map[k]]

\* KVHeap::swap_node.
swap_node(h, i, j) ==
  IF i = j THEN h
  ELSE LET heap == [h.heap_ EXCEPT ![i + 1] = h.heap_[j + 1],
                                   ![j + 1] = h.heap_[i + 1]]
       IN [heap_ |-> heap,
           key2index_ |-> SetIndex(SetIndex(h.key2index_, heap[i + 1].key, i),
                                   heap[j + 1].key, j)]

\* The loop of KVHeap::sift_down: the heap and the index it ends with.
RECURSIVE SiftDownLoop(_, _, _)
SiftDownLoop(h, i, n) ==
  LET lc == left_chil(i)
      rc == level_next(lc)
      child == IF rc < n /\ cmp_(ValueAt(h, lc), ValueAt(h, rc))
               THEN rc ELSE lc
  IN IF ~(lc < n) THEN [h |-> h, i |-> i]
     ELSE IF ~cmp_(ValueAt(h, i), ValueAt(h, child)) THEN [h |-> h, i |-> i]
     ELSE SiftDownLoop(swap_node(h, i, child), child, n)

\* KVHeap::sift_down.
sift_down(h, index, n) ==
  LET r == SiftDownLoop(h, index, n) IN [h |-> r.h, ret |-> r.i > index]

\* The loop of KVHeap::sift_up.
RECURSIVE SiftUpLoop(_, _)
SiftUpLoop(h, i) ==
  IF i > 0 /\ cmp_(ValueAt(h, parent(i)), ValueAt(h, i))
  THEN SiftUpLoop(swap_node(h, i, parent(i)), parent(i))
  ELSE [h |-> h, i |-> i]

\* KVHeap::sift_up(index).  push and update call sift_up(index, n), which
\* the class does not declare; the calls are read as sift_up(index).
sift_up(h, index) ==
  LET r == SiftUpLoop(h, index) IN [h |-> r.h, ret |-> r.i < index]

\* heap_.pop_back() with key2index_.erase(heap_.back().key).
PopBack(h) ==
  [heap_ |-> SubSeq(h.heap_, 1, Len(h.heap_) - 1),
   key2index_ |-> EraseIndex(h.key2index_, h.heap_[Len(h.heap_)].key)]

\* KVHeap::earse_by_index.
earse_by_index(h, index) ==
  LET n == Len(h.heap_) - 1
  IN IF index = n THEN PopBack(h)
     ELSE LET cut == PopBack(swap_node(h, index, n))
          IN sift_down(cut, index, Len(cut.heap_)).h

\* KVHeap::pop: the key and the value of the front, and the heap left.
KV_pop(h) ==
  [key |-> KeyAt(h, 0), value |-> ValueAt(h, 0), h |-> earse_by_index(h, 0)]

\* KVHeap::push(key, Value&&).
KV_push(h, key, elem) ==
  IF key \in DOMAIN h.key2index_ THEN [h |-> h, ret |-> FALSE]
  ELSE LET index == Len(h.heap_)
           put == [heap_ |-> Append(h.heap_, [key |-> key, value |-> elem]),
                   key2index_ |-> SetIndex(h.key2index_, key, index)]
       IN [h |-> sift_up(put, index).h, ret |-> TRUE]

\* KVHeap::erase.
KV_erase(h, key) ==
  IF key \notin DOMAIN h.key2index_ THEN [h |-> h, ret |-> FALSE]
  ELSE [h |-> earse_by_index(h, h.key2index_[key]), ret |-> TRUE]

\* The second loop of KVHeap::update(call_back): sift_up(i, i + 1) from i.
RECURSIVE SiftUpFrom(_, _)
SiftUpFrom(h, i) ==
  IF i < Len(h.heap_) THEN SiftUpFrom(sift_up(h, i).h, i + 1) ELSE h

\* KVHeap::update(call_back), the update of every element, for the call_back
\* of Timer::start: task.reset_next_run_time(now).
KV_update_reset(h, now) ==
  SiftUpFrom([h EXCEPT !.heap_ =
                [i \in 1..Len(h.heap_) |->
                   [h.heap_[i] EXCEPT
                      !.value = reset_next_run_time(@, now)]]], 1)

\* The keys stored in the heap.
KV_keys(h) == {h.heap_[i].key : i \in 1..Len(h.heap_)}

\* A std::function<void(Task &)> handed to Timer::update: the call it was
\* handed in (mutator), and what it does: it assigns value to a field.
Mutate(task, call_back) == [task EXCEPT ![call_back.field] = call_back.value]

\* KVHeap::update_by_index.  sift_up(index, n) is read as sift_up(index).
update_by_index(h, index, n) ==
  IF n = 1 THEN h
  ELSE LET down == sift_down(h, index, n)
       IN IF ~down.ret THEN sift_up(down.h, index).h ELSE down.h

\* KVHeap::update(key, call_back), with the call_back of Timer::update
\* applied to the Task the value points to.
KV_update(h, key, call_back) ==
  IF key \notin DOMAIN h.key2index_ THEN [h |-> h, ret |-> FALSE]
  ELSE LET index == h.key2index_[key]
           put == [h EXCEPT !.heap_[index + 1].value = Mutate(@, call_back)]
       IN [h |-> update_by_index(put, index, Len(put.heap_)), ret |-> TRUE]

\* Timer::Timer.  cur_task_id_ has no initialiser and is read only behind
\* a test of cur_task_.  applied is not of the code: the mutators that were
\* called, in order.
NewTimer ==
  [tasks_ |-> NewKVHeap, running_ |-> FALSE, cur_task_id_ |-> 0,
   cur_task_ |-> nullptr, remove_cur_task_ |-> FALSE,
   update_cur_task_ |-> nullptr, steady_ |-> FALSE, applied |-> <<>>]

\* Timer::add: the timer after the call and what the call returns.
TM_add(tm, task_id, call_back, start_delay, times, interval, now) ==
  IF check(call_back, start_delay, times, interval)
    THEN [tm |-> tm, ret |-> FALSE]
  ELSE IF KV_count(tm.tasks_, task_id) # 0 THEN [tm |-> tm, ret |-> FALSE]
  ELSE LET p_task == NewTask(call_back, start_delay, times, interval)
           pushed == IF tm.running_ THEN reset_next_run_time(p_task, now)
                     ELSE p_task
       IN [tm |-> [tm EXCEPT !.tasks_ = KV_push(@, task_id, pushed).h],
           ret |-> TRUE]

\* Timer::cancel.
TM_cancel_KeepsRunningTask(tm, task_id) ==
  LET erased == KV_erase(tm.tasks_, task_id)
  IN [tm |-> [tm EXCEPT !.tasks_ = erased.h],
      ret |-> erased.ret
              \/ (tm.cur_task_ # nullptr /\ tm.cur_task_id_ = task_id)]

TM_cancel(tm, task_id) ==
  LET erased == KV_erase(tm.tasks_, task_id)
  IN IF ~erased.ret /\ tm.cur_task_ # nullptr /\ tm.cur_task_id_ = task_id
     THEN [tm |-> [tm EXCEPT !.remove_cur_task_ = TRUE], ret |-> TRUE]
     ELSE [tm |-> [tm EXCEPT !.tasks_ = erased.h], ret |-> erased.ret]

\* Timer::update.
TM_update(tm, task_id, call_back) ==
  LET updated == KV_update(tm.tasks_, task_id, call_back)
  IN IF updated.ret
       THEN [tm |-> [tm EXCEPT !.tasks_ = updated.h,
                               !.applied = Append(@, call_back.mutator)],
             ret |-> TRUE]
     ELSE IF tm.cur_task_ # nullptr /\ tm.cur_task_id_ = task_id
       THEN [tm |-> [tm EXCEPT !.update_cur_task_ = Ptr(call_back)],
             ret |-> TRUE]
     ELSE [tm |-> tm, ret |-> FALSE]

\* Timer::stop: what it returns, or that it throws.  On a timer that is not
\* running it goes on to thread_.join(); running_ is set by start only and
\* cleared nowhere else, so thread_ is the default-constructed std::thread,
\* which is not joinable: join throws std::system_error.
TM_stop(tm) ==
  IF tm.running_ THEN [tm |-> tm, ret |-> "false"]
  ELSE [tm |-> [tm EXCEPT !.running_ = FALSE], ret |-> "throws"]

\* Timer::start, for a timer that is not running.
TM_start(tm, now) ==
  [tm EXCEPT !.tasks_ = KV_update_reset(@, now), !.running_ = TRUE]

\* The first half of Timer::run_one_task: the task leaves the heap and
\* becomes the current one; its callback is about to be called.
TM_take(tm) ==
  LET popped == KV_pop(tm.tasks_)
  IN [tm EXCEPT !.tasks_ = popped.h, !.cur_task_id_ = popped.key,
                !.cur_task_ = Ptr(popped.value)]

\* The second half of Timer::run_one_task, from lock.lock() on; now is the
\* time the worker read before the call.  update_cur_task(*cur_task_), a
\* name the class does not declare, is read as update_cur_task_(*cur_task_).
TM_finish(tm, now) ==
  LET ran == reduce_times(tm.cur_task_[1])
      cur == [ran EXCEPT !.next_run_time =
                IF tm.steady_ THEN @ + ran.interval ELSE now + ran.interval]
      update == ~tm.remove_cur_task_ /\ tm.update_cur_task_ # nullptr
      updated == IF update THEN Mutate(cur, tm.update_cur_task_[1]) ELSE cur
      kept == IF ~tm.remove_cur_task_ /\ need_schedule(updated)
              THEN KV_push(tm.tasks_, tm.cur_task_id_, updated).h
              ELSE tm.tasks_
  IN [tm EXCEPT !.tasks_ = kept, !.cur_task_ = nullptr,
                !.remove_cur_task_ = FALSE, !.update_cur_task_ = nullptr,
                !.applied = IF update
                            THEN Append(@, tm.update_cur_task_[1].mutator)
                            ELSE @]

(***************************************************************************)
(* ThreadPool (thread_pool.hpp).  A task is the number of the push_task    *)
(* call that handed it.  tasks_total_ is a size_t: the model holds the     *)
(* representative of its value modulo 2^64 that is nearest to zero, so -1  *)
(* stands for SIZE_MAX.  tasks_mutex_ says whether some thread holds it.   *)
(***************************************************************************)
\* The pool the constructor leaves: create_threads has set running_.
\* std::thread::hardware_concurrency(): the model's machine has as many
\* hardware threads as the pool is constructed with.
hardware_concurrency == PoolThreads

\* ThreadPool::determine_thread_count.
determine_thread_count(thread_count) ==
  IF thread_count > 0 THEN thread_count
  ELSE IF hardware_concurrency > 0 THEN hardware_concurrency
  ELSE 1

\* The pool the constructor leaves, ThreadPool(PoolThreads); threads_ is
\* the number of std::thread objects in the array threads_ points to.
ThreadPool ==
  [paused_ |-> FALSE, running_ |-> TRUE, waiting_ |-> FALSE,
   tasks_ |-> <<>>, tasks_total_ |-> 0, tasks_mutex_ |-> FALSE,
   thread_count_ |-> determine_thread_count(PoolThreads),
   threads_ |-> determine_thread_count(determine_thread_count(PoolThreads))]

\* The members as their initialisers leave them, no thread made.
NewThreadPool ==
  [ThreadPool EXCEPT !.running_ = FALSE, !.thread_count_ = 0, !.threads_ = 0]

\* ThreadPool::reset(thread_count), from the return of destroy_threads to
\* the loop of create_threads: the array is made with thread_count
\* elements, not with thread_count_.
Recreated(p, thread_count, was_paused) ==
  [p EXCEPT !.thread_count_ = determine_thread_count(thread_count),
            !.threads_ = thread_count,
            !.paused_ = was_paused,
            !.running_ = TRUE]

\* The predicate worker waits for on task_avail_cv_.
task_avail(p) == p.tasks_ # <<>> \/ ~p.running_

\* ThreadPool::get_tasks_running, as the signed representative of the size_t
\* difference: a negative number stands for a value near SIZE_MAX.
get_tasks_running(p) == p.tasks_total_ - Len(p.tasks_)

\* A wait_for_tasks that waits for the queue to be empty only.
task_done_QueueEmpty(p) == p.tasks_ = <<>>

\* The predicate wait_for_tasks waits for on task_done_cv_.
task_done(p) == p.tasks_total_ = (IF p.paused_ THEN Len(p.tasks_) ELSE 0)

\* A worker that takes a task whether the pool is paused or not.
Taken_IgnoresPause(p) ==
  IF p.running_
  THEN [took |-> TRUE, p |-> [p EXCEPT !.tasks_ = Tail(@),
                                       !.tasks_mutex_ = FALSE]]
  ELSE [took |-> FALSE, p |-> [p EXCEPT !.tasks_mutex_ = FALSE]]

\* worker, from the return of task_avail_cv_.wait to task(): whether it
\* takes the front task, and the queue it leaves.
Taken(p) ==
  IF p.running_ /\ ~p.paused_
  THEN [took |-> TRUE, p |-> [p EXCEPT !.tasks_ = Tail(@),
                                       !.tasks_mutex_ = FALSE]]
  ELSE [took |-> FALSE, p |-> [p EXCEPT !.tasks_mutex_ = FALSE]]

\* What is known of the tasks: how many were pushed, how many times each
\* was started and has returned, which were pushed to a paused pool
\* (parked) and which of these after a pause() that no unpause() has
\* followed (held), and how the process ended; for the reset in progress
\* or made last, its argument, its local was_paused and the queue it
\* found, and whether create_threads wrote past the array (overrun).
NoPoolLog ==
  [pushed |-> 0, pauses |-> 0, started |-> <<>>, finished |-> <<>>,
   held |-> {}, parked |-> {}, blocked |-> FALSE, terminated |-> FALSE,
   last |-> "none", resets |-> 0, overrun |-> FALSE,
   reset |-> [thread_count |-> 0, was_paused |-> FALSE, tasks_ |-> <<>>]]

(***************************************************************************)
(* Buffer (utils/buffer.h).  A pointer is a block and a position in it;    *)
(* block 0 is no block.  data_ is the block the unique_ptr owns: its       *)
(* number, its size and its bytes.  Blocks are numbered as they are        *)
(* allocated, and the block data_ gave up is freed.                        *)
(***************************************************************************)
NullPtr == [block |-> 0, off |-> 0]
PtrAdd(ptr, n) == [ptr EXCEPT !.off = @ + n]

\* std::make_unique<char[]>(size), as the id-th allocation.
NewBlock(id, size) == [id |-> id, size |-> size, mem |-> [i \in 1..size |-> 0]]

\* Buffer::Buffer(capacity).  The members are initialised in the order of
\* their declaration, data_, cap_, read_ptr_, write_ptr_, begin_ptr_: data_
\* is allocated with the cap_ not yet set and the two pointers are copied
\* from the begin_ptr_ not yet set; size and stale stand for what these
\* indeterminate values are.
NewBuffer(capacity, size, stale) ==
  [data_ |-> NewBlock(1, size), cap_ |-> capacity,
   read_ptr_ |-> stale, write_ptr_ |-> stale,
   begin_ptr_ |-> [block |-> 1, off |-> 0]]

\* Buffer::readable_size and Buffer::writeable_size: differences of
\* pointers, as the build computes them.
Buffer_readable_size(b) == b.write_ptr_.off - b.read_ptr_.off
Buffer_writeable_size(b) == (b.begin_ptr_.off + b.cap_) - b.write_ptr_.off

\* The byte a pointer points to: -1 when it is not in the block of data_.
BufferByte(b, ptr) ==
  IF ptr.block = b.data_.id /\ ptr.off + 1 \in 1..b.data_.size
  THEN b.data_.mem[ptr.off + 1] ELSE -1

\* Buffer::view: the bytes from read_ptr_ up to write_ptr_.
Buffer_view(b) ==
  [i \in 1..Buffer_readable_size(b) |->
     BufferByte(b, PtrAdd(b.read_ptr_, i - 1))]

\* std::copy of bytes to the block at position at (the bytes that land past
\* the block are not kept).
BlockCopy(blk, bytes, at) ==
  [blk EXCEPT !.mem = [i \in 1..blk.size |->
                         IF i - at \in 1..Len(bytes) THEN bytes[i - at]
                         ELSE blk.mem[i]]]

\* Buffer::ensure_writeable.  In the branch that reallocates, begin_ptr_ is
\* set from new_buf.get() after data_ = std::move(new_buf) has emptied
\* new_buf: it is the null pointer, and so are the pointers set from it.
Buffer_ensure_writeable(b, size) ==
  IF Buffer_writeable_size(b) >= size THEN b
  ELSE IF (b.read_ptr_.off - b.begin_ptr_.off) + Buffer_writeable_size(b)
          > size
    THEN [b EXCEPT
            !.data_ = BlockCopy(@, Buffer_view(b), b.begin_ptr_.off),
            !.read_ptr_ = b.begin_ptr_,
            !.write_ptr_ = PtrAdd(b.begin_ptr_, Buffer_readable_size(b))]
  ELSE [b EXCEPT
          !.data_ = BlockCopy(NewBlock(b.data_.id + 1, size * 2),
                              Buffer_view(b), 0),
          !.cap_ = size * 2,
          !.begin_ptr_ = NullPtr,
          !.read_ptr_ = NullPtr,
          !.write_ptr_ = PtrAdd(NullPtr, Buffer_readable_size(b))]

\* Buffer::update_write_ptr and Buffer::update_read_ptr.
Buffer_update_write_ptr(b, step) ==
  [b EXCEPT !.write_ptr_ = PtrAdd(@, Min(step, Buffer_writeable_size(b)))]
Buffer_update_read_ptr(b, step) ==
  [b EXCEPT !.read_ptr_ = PtrAdd(@, Min(step, Buffer_readable_size(b)))]

\* Buffer::clear.
Buffer_clear(b) == [b EXCEPT !.write_ptr_ = b.begin_ptr_,
                             !.read_ptr_ = b.begin_ptr_]

\* n bytes at ptr lie in the block of data_.
InStorage(b, ptr, n) ==
  ptr.block = b.data_.id /\ ptr.off >= 0 /\ ptr.off + n <= b.data_.size

\* No Buffer made.
NoBuffer == [data_ |-> NewBlock(0, 0), cap_ |-> 0, read_ptr_ |-> NullPtr,
             write_ptr_ |-> NullPtr, begin_ptr_ |-> NullPtr]
NoBufferLog == [op |-> "none", n |-> 0, got |-> 0, calls |-> 0,
                fault |-> FALSE]

(***************************************************************************)
(* ResourcePool<Resource>, the class of pool/resource_pool.h and the older *)
(* one of src/pool/resource_pool.hpp.  A resource is the number of the     *)
(* alloc_() call that made it (0 is nullptr); res_ is the queue of free    *)
(* resources, made counts the calls of alloc_, freed holds the resources   *)
(* deleter_ was called on, and stuck says that a call waits for res_mutex_ *)
(* while its own thread holds it.                                          *)
(***************************************************************************)
\* The resources the next n calls of alloc_() return.
Allocated(rp, n) == [i \in 1..n |-> rp.made + i]

\* ResourcePool::alloc_res(lock).
alloc_res(rp) ==
  IF rp.total_count_ >= rp.max_count_ THEN rp
  ELSE LET n == Min(rp.alloc_count_, rp.max_count_ - rp.total_count_)
       IN [rp EXCEPT !.res_ = @ \o Allocated(rp, n),
                     !.total_count_ = @ + n,
                     !.made = @ + n]

\* ResourcePool::free_res(lock).
free_res(rp) ==
  IF rp.total_count_ < rp.max_count_ THEN rp
  ELSE LET n == Min(Len(rp.res_), rp.total_count_ - rp.max_count_)
       IN [rp EXCEPT !.res_ = SubSeq(@, n + 1, Len(@)),
                     !.freed = @ \cup {rp.res_[i] : i \in 1..n},
                     !.total_count_ = @ - n]

\* ResourcePool::ResourcePool(alloc_count, max_count, alloc, deleter), with
\* arguments init accepts.  alloc_res(res_mutex_) is read as
\* alloc_res(lock).
NewResourcePool(alloc_count, max_count) ==
  alloc_res([file |-> "resource_pool.h", res_ |-> <<>>, total_count_ |-> 0,
             max_count_ |-> max_count, alloc_count_ |-> alloc_count,
             made |-> 0, freed |-> {}, stuck |-> FALSE])

\* ResourcePool::set_max_count.
set_max_count(rp, max_count) == [rp EXCEPT !.max_count_ = max_count]

\* ResourcePool::get: the pool afterwards and the resource the returned
\* shared_ptr holds (0 for nullptr).
RP_get(rp) ==
  LET freed == free_res(rp)
      filled == IF freed.res_ = <<>> THEN alloc_res(freed) ELSE freed
  IN IF filled.res_ = <<>> THEN [rp |-> filled, ret |-> 0]
     ELSE [rp |-> [filled EXCEPT !.res_ = Tail(@)], ret |-> Head(filled.res_)]

\* ResourcePool::recycle, the deleter of the shared_ptr get returns
\* (std::bind(ResourcePool::recycle, this) is read as the call of
\* recycle(ptr) on this pool).
recycle(rp, ptr) == [rp EXCEPT !.res_ = Append(@, ptr)]

\* ResourcePool::alloc_res() of resource_pool.hpp, past its lock_guard.
alloc_res_hpp(rp) ==
  LET n == Min(rp.min_count_, rp.max_count_ - rp.total_count_)
  IN [rp EXCEPT !.res_ = @ \o Allocated(rp, n),
                !.total_count_ = @ + n,
                !.made = @ + n]

\* ResourcePool::ResourcePool(min_count, max_count, alloc, deleter) of
\* resource_pool.hpp.
NewResourcePool_hpp(min_count, max_count) ==
  alloc_res_hpp([file |-> "resource_pool.hpp", res_ |-> <<>>,
                 total_count_ |-> 0, max_count_ |-> max_count,
                 min_count_ |-> min_count, made |-> 0, freed |-> {},
                 stuck |-> FALSE])

\* ResourcePool::get of resource_pool.hpp.  It holds res_mutex_ when it
\* calls alloc_res(), which locks res_mutex_ again: the call blocks for
\* ever, or the lock lets the owner through (-1 is what front() of an empty
\* queue returns).
RP_get_hpp(rp, ub) ==
  IF rp.total_count_ >= rp.max_count_ THEN [rp |-> rp, ret |-> 0]
  ELSE IF rp.res_ = <<>> /\ ub = "blocks"
    THEN [rp |-> [rp EXCEPT !.stuck = TRUE], ret |-> 0]
  ELSE LET filled == IF rp.res_ = <<>> THEN alloc_res_hpp(rp) ELSE rp
       IN [rp |-> filled,
           ret |-> IF filled.res_ = <<>> THEN -1 ELSE Head(filled.res_)]

\* No ResourcePool made.
NoResourcePool ==
  [file |-> "none", res_ |-> <<>>, total_count_ |-> 0, max_count_ |-> 0,
   made |-> 0, freed |-> {}, stuck |-> FALSE]
NoResourceLog == [op |-> "none", ret |-> 0, calls |-> 0, out |-> <<>>]

(***************************************************************************)
(* The string_view helpers of utils/sv.h, INI::parse and                   *)
(* Parser::parse_form.  A string_view is the sequence of its characters.   *)
(***************************************************************************)
isspace(ch) == ch \in {SP, LF, CR}

\* The least number of a set that is not empty.
MinOf(S) == CHOOSE i \in S : \A j \in S : i <= j

\* std::string_view::find_first_of(ch) and find(ch): the index from 0, or
\* npos (-1 stands for SIZE_MAX).
npos == -1
find_first_of(str, ch) ==
  IF \E i \in 1..Len(str) : str[i] = ch
  THEN MinOf({i \in 1..Len(str) : str[i] = ch}) - 1
  ELSE npos

\* std::string_view::substr(pos, npos) for pos <= size().
substr(str, pos) == SubSeq(str, pos + 1, Len(str))

ltrim(str) ==
  IF \A i \in 1..Len(str) : isspace(str[i]) THEN <<>>
  ELSE substr(str, MinOf({i \in 1..Len(str) : ~isspace(str[i])}) - 1)

rtrim(str) ==
  IF \A i \in 1..Len(str) : isspace(str[i]) THEN <<>>
  ELSE SubSeq(str, 1, CHOOSE i \in 1..Len(str) :
                        /\ ~isspace(str[i])
                        /\ \A j \in (i + 1)..Len(str) : isspace(str[j]))

trim(str) == rtrim(ltrim(str))

\* getline(input, str, delim): the piece put in str and what is left in
\* input.  When delim is absent pos is npos, substr(0, npos) is all of
\* input, and pos + 1 wraps round to 0.
getline(input, delim) ==
  LET pos == find_first_of(input, delim)
  IN [str |-> IF pos = npos THEN input ELSE SubSeq(input, 1, pos),
      input |-> substr(input, IF pos = npos THEN 0 ELSE pos + 1)]

\* INI::is_comment_line, on a line that is not empty.
is_comment_line(str, type) ==
  IF type = "POSSIBLE" THEN str[1] = ";" \/ str[1] = "#"
  ELSE str[1] = type

\* Parser::parse_form_elem ('%' is followed by two hexadecimal characters,
\* which "%" \o a \o b stands for once decoded).
RECURSIVE parse_form_elem(_)
parse_form_elem(data) ==
  IF data = <<>> THEN <<>>
  ELSE IF data[1] = "%"
    THEN <<"%" \o data[2] \o data[3]>> \o parse_form_elem(substr(data, 3))
  ELSE IF data[1] = "+" THEN <<SP>> \o parse_form_elem(Tail(data))
  ELSE <<data[1]>> \o parse_form_elem(Tail(data))

\* No text handed to a parser.
NoText ==
  [fn |-> "none", input |-> <<>>, data |-> <<>>, type |-> "none",
   seen |-> <<>>, obj |-> EmptyHeader, p_sec |-> "unset", pc |-> "none",
   iters |-> 0]

(***************************************************************************)
(* State.                                                                  *)
(***************************************************************************)
VARIABLES
  \* The parser on its own (SpecParser).
  stream,       \* the bytes the peer sends on the fd, in order
  parser,       \* the RequestParser of the connection
  keep_alive_,  \* Connection::keep_alive_
  pc,           \* where consume_from_fd is: idle, loop, diverged, threw
  ret,          \* what consume_from_fd returned (NoRet while it runs)
  iters,        \* loop iterations of the current call so far
  yielded,      \* addresses of the Requests returned so far, in order
  \* The server (Spec).
  listen_fd_,   \* Server::listen_fd_
  conn_,        \* ConnectionManger::conn_, fd -> Connection
  epoll,        \* the interest list of Server::epoller_, fd -> registration
  open_fds,     \* the client fds open in the process
  sock,         \* per client socket: the peer's bytes, how many were read
  backlog,      \* connections waiting in the listen queue
  accepted,     \* how many connections accept has returned
  tasks,        \* handler runs dispatched and not finished
  last,         \* what the server did last (accept, hangup, read, write)
  terminated,   \* the process has ended
  running_,     \* Server::running_
  stop_rets,    \* what the calls of Server::stop returned, in order
  \* BufferVector objects on their own (SpecBuffer).
  bufs,         \* the BufferVector objects, by number
  bvlog,        \* per object: the calls made on it, bytes written and read
  bvlast,       \* the call made last
  \* A HandlerManager on its own (SpecHandlers).
  hm,           \* the HandlerManager
  hmlast,       \* the call of handle made last, and what it returned
  \* A Timer on its own (SpecTimer).
  timer,        \* the Timer
  clock,        \* what clock::now() returns
  worker,       \* the scheduler thread: where it is, the now it read
  invoked,      \* per callback: how many times it was started
  added,        \* the calls of add with arguments check passes and a
                \* free id: the callback handed, the times asked
  cancelled,    \* the callbacks of the tasks a cancel returned true for
  updated,      \* the calls of update that returned true: the mutator
                \* handed, the callback of the task it was for
  tmlast,       \* the call made last on the timer, and what it returned
  \* A ThreadPool on its own (SpecPool).
  tp,           \* the ThreadPool
  threads,      \* per thread of threads_: where worker is, the task it took
  user,         \* the thread that owns the pool: the call it is in
  tplog,        \* what was pushed, started and finished; how it ended
  \* A flat Buffer on its own (SpecFlat).
  fbuf,         \* the Buffer, and the block of the heap data_ owns
  fblog,        \* the call made last on it, and whether an access faulted
  \* A KVHeap on its own (SpecHeap).
  kv,           \* the KVHeap
  kvlog,        \* the call made last on it, and what pop returned
  \* A ResourcePool on its own (SpecResource).
  rpool,        \* the ResourcePool
  rplog,        \* the resources handed out and not released, the last call
  \* INI::parse and Parser::parse_form on their own (SpecText).
  txt           \* the call in progress: its input, what is left, its result

\* What the handlers of the reactor and of the pool leave alone.
lifecycle_vars == <<listen_fd_, running_, stop_rets>>
parser_vars == <<stream, parser, keep_alive_, pc, ret, iters, yielded>>
server_vars == <<listen_fd_, conn_, epoll, open_fds, sock, backlog, accepted,
                 tasks, last, terminated, running_, stop_rets>>
buffer_vars == <<bufs, bvlog, bvlast>>
\* The state of the library classes checked on their own.
handler_vars == <<hm, hmlast>>
timer_vars == <<timer, clock, worker, invoked, added, cancelled, updated,
                tmlast>>
pool_vars == <<tp, threads, user, tplog>>
\* The small classes of utils/ checked on their own.
flat_vars == <<fbuf, fblog>>
heap_vars == <<kv, kvlog>>
respool_vars == <<rpool, rplog>>
util_vars == <<flat_vars, heap_vars, respool_vars, txt>>
library_vars == <<buffer_vars, handler_vars, timer_vars, pool_vars,
                  util_vars>>
\* What no handler of the server touches.
outer_vars == <<library_vars, parser_vars>>
vars == <<parser_vars, server_vars, library_vars>>

NoRun ==
  [op |-> "none", conn |-> 0, how |-> "none", state |-> "none",
   yielded |-> FALSE, calls |-> <<>>, size |-> 0, errno |-> "none",
   bytes_before |-> 0, keep_alive |-> FALSE]

\* The server before Server::listen.
ServerDown ==
  /\ listen_fd_ = -1
  /\ conn_ = <<>>
  /\ epoll = <<>>
  /\ open_fds = {}
  /\ sock = <<>>
  /\ backlog = 0
  /\ accepted = 0
  /\ tasks = <<>>
  /\ last = NoRun
  /\ terminated = FALSE
  /\ running_ = FALSE
  /\ stop_rets = <<>>

\* No BufferVector made.
BufferIdle ==
  /\ bufs = <<>>
  /\ bvlog = <<>>
  /\ bvlast = [op |-> "none", buf |-> 0, n |-> 0]

\* No HandlerManager made.
HandlersIdle ==
  /\ hm = NewHandlerManager
  /\ hmlast = [op |-> "none", pattern |-> <<>>, handler |-> 0,
               returns |-> FALSE, calls |-> 0]

\* No Timer made.
TimerIdle ==
  /\ timer = NewTimer
  /\ clock = Epoch
  /\ worker = [pc |-> "none", now |-> Epoch]
  /\ invoked = <<>>
  /\ added = {}
  /\ cancelled = {}
  /\ updated = {}
  /\ tmlast = [op |-> "none", calls |-> 0]

\* No ThreadPool made.
PoolIdle ==
  /\ tp = NewThreadPool
  /\ threads = <<>>
  /\ user = [pc |-> "none", op |-> "none"]
  /\ tplog = NoPoolLog

\* No library class run on its own.
\* No KVHeap made.
NoHeapLog == [op |-> "none", key |-> 0, calls |-> 0, popped |-> 0, least |-> 0]
HeapIdle ==
  /\ kv = NewKVHeap
  /\ kvlog = NoHeapLog

\* No Buffer made.
FlatIdle ==
  /\ fbuf = NoBuffer
  /\ fblog = NoBufferLog

\* No ResourcePool made.
ResourceIdle ==
  /\ rpool = NoResourcePool
  /\ rplog = NoResourceLog

\* No text parsed.
TextIdle == txt = NoText

\* No class of utils/ run on its own.
UtilIdle == FlatIdle /\ HeapIdle /\ ResourceIdle /\ TextIdle

LibraryIdle ==
  BufferIdle /\ HandlersIdle /\ TimerIdle /\ PoolIdle /\ UtilIdle

\* No parser run on its own.
ParserIdle ==
  /\ stream = <<>>
  /\ parser = NewParser
  /\ keep_alive_ = TRUE
  /\ pc = "idle"
  /\ ret = NoRet
  /\ iters = 0
  /\ yielded = <<>>

\* A parser that has accepted the request line `METHOD uri HTTP/version`.
ParserAfterRequestLine(method, uri, version) ==
  [NewParser EXCEPT
     !.state_ = "PARSING_REQUEST_HEADER",
     !.obj_ = Ptr([NewRequest(1) EXCEPT !.method_ = method,
                                        !.uri_ = uri,
                                        !.version_ = <<version>>]),
     !.nalloc = 1]

\* consume_from_fd is entered on a fresh parser, and on a parser that holds
\* an accepted request line and has the headers to read.  The second entry
\* is how the cases of the loop past PARSING_REQUEST_LINE are exercised: a
\* line the request-line regex matches goes to str2Method, and so to
\* toupper, which does not return.
InitParser ==
  /\ \/ /\ parser = NewParser
        /\ stream \in Heads \ {<<>>}
     \/ /\ parser \in {ParserAfterRequestLine("GET", <<"/">>, v) :
                         v \in {"1.1", "1.0"}}
        /\ stream \in {t \o h : t \in Tails, h \in Heads}
  /\ keep_alive_ = TRUE
  /\ pc = "idle"
  /\ ret = NoRet
  /\ iters = 0
  /\ yielded = <<>>
  /\ ServerDown
  /\ LibraryIdle

\* Connection::parse_request_from_fd, on the pair consume_from_fd returned.
KeepAliveAfter(r, old) ==
  IF r.req # nullptr THEN is_keepalive(Deref(r.req)) ELSE old

Returned(r) ==
  /\ pc' = "idle"
  /\ ret' = r.ret
  /\ keep_alive_' = KeepAliveAfter(r.ret, keep_alive_)
  /\ yielded' = IF r.ret.req # nullptr
                THEN Append(yielded, Deref(r.ret.req).addr) ELSE yielded

\* consume_from_fd is called: the read loop, n atoms arrive.
Consume(n, errno) ==
  /\ pc = "idle"
  /\ LET r == ReadFd(parser, n, errno)
     IN  /\ parser' = r.p
         /\ iters' = 0
         /\ IF r.ctl = "ret" THEN Returned(r)
            ELSE /\ pc' = "loop"
                 /\ ret' = NoRet
                 /\ UNCHANGED <<keep_alive_, yielded>>
  /\ UNCHANGED <<stream, server_vars, library_vars>>

\* One iteration of the parse loop.
Iterate ==
  /\ pc = "loop"
  /\ iters < MaxIters
  /\ LET r == ParseIter(parser, stream)
     IN  /\ parser' = r.p
         /\ iters' = iters + 1
         /\ IF r.ctl = "ret" THEN Returned(r)
            ELSE pc' = r.ctl /\ UNCHANGED <<ret, keep_alive_, yielded>>
  /\ UNCHANGED <<stream, server_vars, library_vars>>

NextParser ==
  \/ \E n \in 1..(Len(stream) - parser.wr) : Consume(n, "EAGAIN")
  \/ \E errno \in {"EAGAIN", "EBADF"} : Consume(0, errno)
  \/ Iterate

SpecParser == InitParser /\ [][NextParser]_vars

(***************************************************************************)
(* The server: the reactor of Server::start, the worker pool's tasks, and  *)
(* the peers.                                                              *)
(***************************************************************************)
\* What the peer of an established connection sends.
ServerStreams ==
  { HeaderLine("Connnection", "keep-alive")
      \o HeaderLine("Content-Length", "1") \o CRLF \o <<"a">>,
    HeaderLine("Connection", "keep-alive")
      \o HeaderLine("Content-Length", "0") \o CRLF,
    HeaderLine("Content-Length", "2") \o CRLF \o <<"a">>,
    HeaderLine("Host", "x") \o CRLF,
    RequestLine("GET", "/", "1.1") \o CRLF }

\* The Connection of an established client: as constructed, or with the
\* request line of its first request accepted.
EstablishedConnections(fd) ==
  {NewConnection(fd)} \cup
  {[NewConnection(fd) EXCEPT
      !.req_parser_ = Ptr(ParserAfterRequestLine("GET", u, "1.1"))] :
     u \in {<<"/">>, <<"*">>}}

\* The server after Server::listen, with the clients fds established as the
\* acceptor is to leave them: in the table, and registered for
\* client_event_ | EPOLLIN with the Connection as user data.
InitServer(fds) ==
  /\ listen_fd_ = 3
  /\ conn_ \in [fds -> UNION {EstablishedConnections(fd) : fd \in fds}]
  /\ \A fd \in fds : conn_[fd].fd_ = fd
  /\ epoll = [fd \in fds \cup {3} |->
                IF fd = 3
                THEN Registration(listen_fd_event_ \cup {"EPOLLIN"}, nullptr)
                ELSE Registration(client_event_ \cup {"EPOLLIN"}, Ptr(fd))]
  /\ open_fds = fds
  /\ sock \in [fds -> {[stream |-> st, nread |-> 0] : st \in ServerStreams}]
  /\ backlog = 0
  /\ accepted = 0
  /\ tasks = <<>>
  /\ last = NoRun
  /\ terminated = FALSE
  /\ running_ = FALSE
  /\ stop_rets = <<>>
  /\ ParserIdle
  /\ LibraryIdle

\* One client is established, on the fd after the listen fd.
Init == InitServer({4})

\* Server::timer_, the Timer<int> of the server: it is as constructed in
\* every state, for no member function of Server calls a method of it
\* (acceptor, on_read and on_write add, update and cancel no task, and
\* start starts no scheduler thread).
timer_ == NewTimer

ServerState == [conn_ |-> conn_, epoll |-> epoll, open_fds |-> open_fds,
                calls |-> <<>>]

Install(S) ==
  /\ conn_' = S.conn_
  /\ epoll' = S.epoll
  /\ open_fds' = S.open_fds

\* EPOLLONESHOT: delivering an event of fd disarms its registration.
Delivered(S, fd) ==
  IF "EPOLLONESHOT" \in S.epoll[fd].events
  THEN [S EXCEPT !.epoll[fd].armed = FALSE] ELSE S

\* Server::start is called: with no listen fd, or while running, it returns
\* at once; else it sets running_ and enters the loop `while (running_)`,
\* whose iterations are the Dispatch actions.
Start ==
  /\ ~terminated
  /\ listen_fd_ # -1
  /\ ~running_
  /\ running_' = TRUE
  /\ UNCHANGED <<outer_vars, listen_fd_, conn_, epoll, open_fds, sock,
                 backlog, accepted, tasks, last, terminated, stop_rets>>

\* Server::stop: `if (running_ == false) return false; running_ = true;
\* return true;`
stop(running) ==
  IF running = FALSE THEN [running_ |-> running, returns |-> FALSE]
  ELSE [running_ |-> TRUE, returns |-> TRUE]

\* Server::stop is called, from any thread.
Stop ==
  /\ ~terminated
  /\ Len(stop_rets) < MaxStops
  /\ running_' = stop(running_).running_
  /\ stop_rets' = Append(stop_rets, stop(running_).returns)
  /\ UNCHANGED <<outer_vars, listen_fd_, conn_, epoll, open_fds, sock,
                 backlog, accepted, tasks, last, terminated>>

\* A peer connects.
Connect ==
  /\ ~terminated
  /\ accepted + backlog < MaxAccepts
  /\ backlog' = backlog + 1
  /\ UNCHANGED <<outer_vars, lifecycle_vars, conn_, epoll, open_fds, sock,
                 accepted, tasks, last, terminated>>

\* Server::start, an event whose user data is null: acceptor().
DispatchAccept ==
  /\ ~terminated
  /\ running_
  /\ backlog > 0
  /\ \E fd \in DOMAIN epoll :
       /\ epoll[fd].armed
       /\ epoll[fd].ptr = nullptr
       /\ "EPOLLIN" \in epoll[fd].events
       /\ LET new == SetMin((listen_fd_ + 1 .. listen_fd_ + MaxFds) \ open_fds)
          IN  /\ Install(acceptor(Delivered(ServerState, fd), new))
              /\ last' = [NoRun EXCEPT !.op = "accept", !.conn = new,
                                       !.how = "returns"]
  /\ backlog' = backlog - 1
  /\ accepted' = accepted + 1
  /\ UNCHANGED <<outer_vars, lifecycle_vars, sock, tasks, terminated>>

\* Server::start, a client's event with EPOLLRDHUP, EPOLLHUP or EPOLLERR:
\* close_client(conn->fd()).
DispatchHangup(fd) ==
  /\ ~terminated
  /\ running_
  /\ fd \in DOMAIN epoll
  /\ epoll[fd].armed
  /\ epoll[fd].ptr # nullptr
  /\ LET conn == Deref(epoll[fd].ptr)
         S == close_client(Delivered(ServerState, fd), conn_[conn].fd_)
     IN  /\ Install(S)
         /\ last' = [NoRun EXCEPT !.op = "hangup", !.conn = conn,
                                  !.how = "returns", !.calls = S.calls]
  /\ UNCHANGED <<outer_vars, lifecycle_vars, sock, backlog, accepted, tasks,
                 terminated>>

\* Server::start, a client's EPOLLIN or EPOLLOUT event: on_read or on_write
\* is handed to the worker pool.
DispatchTask(fd, ev) ==
  /\ ~terminated
  /\ running_
  /\ fd \in DOMAIN epoll
  /\ epoll[fd].armed
  /\ epoll[fd].ptr # nullptr
  /\ ev \in epoll[fd].events
  /\ ev = "EPOLLIN" => sock[fd].nread < Len(sock[fd].stream)
  /\ Len(tasks) < MaxTasks
  /\ Install(Delivered(ServerState, fd))
  /\ tasks' = Append(tasks, [op |-> IF ev = "EPOLLIN" THEN "read" ELSE "write",
                             conn |-> Deref(epoll[fd].ptr),
                             stuck |-> FALSE])
  /\ UNCHANGED <<outer_vars, lifecycle_vars, sock, backlog, accepted, last,
                 terminated>>

Remove(seq, i) == SubSeq(seq, 1, i - 1) \o SubSeq(seq, i + 1, Len(seq))

\* A handler run has ended.
Finish(i, r, run) ==
  /\ Install(r.S)
  /\ terminated' = (r.how = "terminate")
  /\ tasks' = IF r.how = "never" THEN [tasks EXCEPT ![i].stuck = TRUE]
              ELSE Remove(tasks, i)
  /\ last' = [run EXCEPT !.how = r.how, !.state = r.state,
                         !.yielded = r.yielded, !.calls = r.S.calls]

\* A worker runs on_read.
RunRead(i, n, errno, ub, b) ==
  /\ ~terminated
  /\ i \in DOMAIN tasks
  /\ tasks[i].op = "read"
  /\ ~tasks[i].stuck
  /\ LET conn == tasks[i].conn
         fd == conn_[conn].fd_
         r == on_read(ServerState, conn, sock[fd].stream, sock[fd].nread,
                      n, errno, ub, b)
     IN  /\ n <= Len(sock[fd].stream) - sock[fd].nread
         /\ sock' = [sock EXCEPT ![fd].nread = @ + n]
         /\ Finish(i, r, [NoRun EXCEPT !.op = "read", !.conn = conn,
                                       !.size = n, !.errno = errno])
  /\ UNCHANGED <<outer_vars, lifecycle_vars, backlog, accepted>>

\* A worker runs on_write.
RunWrite(i, size, errno) ==
  /\ ~terminated
  /\ i \in DOMAIN tasks
  /\ tasks[i].op = "write"
  /\ ~tasks[i].stuck
  /\ LET conn == tasks[i].conn
         r == on_write(ServerState, conn, size, errno)
     IN  /\ size <= conn_[conn].resp_.bytes
         /\ (size = 0) => conn_[conn].resp_.bytes = 0
         /\ Finish(i, r, [NoRun EXCEPT
                            !.op = "write", !.conn = conn, !.size = size,
                            !.errno = errno,
                            !.bytes_before = conn_[conn].resp_.bytes,
                            !.keep_alive = conn_[conn].keep_alive_])
  /\ UNCHANGED <<outer_vars, lifecycle_vars, sock, backlog, accepted>>

Next ==
  \/ Start
  \/ Stop
  \/ Connect
  \/ DispatchAccept
  \/ \E fd \in DOMAIN epoll : DispatchHangup(fd)
  \/ \E fd \in DOMAIN epoll, ev \in {"EPOLLIN", "EPOLLOUT"} :
       DispatchTask(fd, ev)
  \/ \E i \in DOMAIN tasks, n \in 1..MaxRead, ub \in {"crash", "goes on"},
        b \in 1..MaxResp :
       RunRead(i, n, "none", ub, b)
  \/ \E i \in DOMAIN tasks, errno \in {"EAGAIN", "ECONNRESET"} :
       RunRead(i, 0, errno, "crash", 1)
  \/ \E i \in DOMAIN tasks, size \in 0..MaxResp : RunWrite(i, size, "none")
  \/ \E i \in DOMAIN tasks, errno \in {"EAGAIN", "EPIPE"} :
       RunWrite(i, -1, errno)

Spec == Init /\ [][Next]_vars

(***************************************************************************)
(* BufferVector objects on their own: two objects of one capacity, and the *)
(* calls a user makes on them.                                             *)
(***************************************************************************)
Buffers == {1, 2}

\* The capacities the objects are made with.
Capacities == {1, 2}

NewLog == [ops |-> <<>>, written |-> <<>>, got |-> <<>>, alive |-> TRUE]

InitBuffer ==
  /\ \E capacity \in Capacities :
       bufs = [b \in Buffers |-> NewBufferVector(capacity)]
  /\ bvlog = [b \in Buffers |-> NewLog]
  /\ bvlast = [op |-> "none", buf |-> 0, n |-> 0]
  /\ ServerDown
  /\ ParserIdle
  /\ HandlersIdle
  /\ TimerIdle
  /\ PoolIdle
  /\ UtilIdle

\* The entries of the logs that are calls of the names in ops.
Calls(ops) ==
  {c \in {<<b, i>> : b \in Buffers, i \in 1..(MaxOps + 1)} :
     /\ c[2] <= Len(bvlog[c[1]].ops)
     /\ bvlog[c[1]].ops[c[2]].op \in ops}

\* The calls made so far, and the blocks handed in so far.
CallsMade ==
  Cardinality(Calls({"write", "read", "write_foreign", "write_buffer",
                     "clear", "destroy"}))
BlocksMade == Cardinality(Calls({"write_foreign"}))

\* A call can be made on object b: it is alive, and no access has faulted.
Callable(b) ==
  /\ bvlog[b].alive
  /\ \A o \in Buffers : ~bufs[o].fault
  /\ CallsMade < MaxOps

\* The bytes a user writes are numbered in the order of the writes.
NextBytes(n) ==
  [i \in 1..n |-> Len(bvlog[1].written) + Len(bvlog[2].written) + i]

\* The bytes of the block handed in with number id.
BlockBytes(id, size) == [i \in 1..size |-> 10 * id + i]

Logged(b, op, n) ==
  /\ bvlast' = [op |-> op, buf |-> b, n |-> n]
  /\ UNCHANGED <<parser_vars, server_vars, handler_vars, timer_vars,
               pool_vars, util_vars>>

\* b.write(src, n).
BvWrite(b, n, ub) ==
  /\ Callable(b)
  /\ bufs' = [bufs EXCEPT ![b] = BV_write(bufs[b], NextBytes(n), ub)]
  /\ bvlog' = [bvlog EXCEPT ![b].ops = Append(@, [op |-> "write", n |-> n]),
                            ![b].written = @ \o NextBytes(n)]
  /\ Logged(b, "write", n)

\* b.read(dest, n).
BvRead(b, n, ub) ==
  /\ Callable(b)
  /\ bufs' = [bufs EXCEPT ![b] = BV_read(bufs[b], n, ub).bv]
  /\ bvlog' = [bvlog EXCEPT ![b].ops = Append(@, [op |-> "read", n |-> n]),
                            ![b].got = @ \o BV_read(bufs[b], n, ub).dest]
  /\ Logged(b, "read", n)

\* b.write(buffer, size, deleter, readonly) with a new block; one block is
\* handed in.
BvWriteForeign(b, size, readonly) ==
  /\ Callable(b)
  /\ BlocksMade = 0
  /\ bufs' = [bufs EXCEPT ![b] =
                BV_write_foreign(bufs[b], BlocksMade + 1,
                                 BlockBytes(BlocksMade + 1, size), readonly)]
  /\ bvlog' = [bvlog EXCEPT
                 ![b].ops = Append(@, [op |-> "write_foreign", n |-> size])]
  /\ Logged(b, "write_foreign", size)

\* b.write(other).
BvWriteBuffer(b, other) ==
  /\ b # other
  /\ Callable(b)
  /\ bvlog[other].alive
  /\ bufs' = [bufs EXCEPT
                ![b] = BV_write_buffer(bufs[b], bufs[other]).this,
                ![other] = BV_write_buffer(bufs[b], bufs[other]).buffer]
  /\ bvlog' = [bvlog EXCEPT
                 ![b].ops = Append(@, [op |-> "write_buffer", n |-> other]),
                 ![other].ops = Append(@, [op |-> "source", n |-> b])]
  /\ Logged(b, "write_buffer", other)

\* b.clear().
BvClear(b) ==
  /\ Callable(b)
  /\ bufs' = [bufs EXCEPT ![b] = BV_clear(bufs[b])]
  /\ bvlog' = [bvlog EXCEPT ![b].ops = Append(@, [op |-> "clear", n |-> 0])]
  /\ Logged(b, "clear", 0)

\* b is destroyed.
BvDestroy(b) ==
  /\ Callable(b)
  /\ bufs' = [bufs EXCEPT ![b] = destory(bufs[b])]
  /\ bvlog' = [bvlog EXCEPT ![b].ops = Append(@, [op |-> "destroy", n |-> 0]),
                            ![b].alive = FALSE]
  /\ Logged(b, "destroy", 0)

NextBuffer ==
  \/ \E b \in Buffers, n \in 1..MaxWrite, ub \in {"fault", "goes on"} :
       BvWrite(b, n, ub)
  \/ \E b \in Buffers, n \in 1..MaxWrite, ub \in {"fault", "goes on"} :
       BvRead(b, n, ub)
  \/ \E b \in Buffers, size \in 1..MaxBlock, readonly \in BOOLEAN :
       BvWriteForeign(b, size, readonly)
  \/ \E b, other \in Buffers : BvWriteBuffer(b, other)
  \/ \E b \in Buffers : BvClear(b)
  \/ \E b \in Buffers : BvDestroy(b)

SpecBuffer == InitBuffer /\ [][NextBuffer]_vars

\* The bytes get_read_iovec shows, in order.
ReadView(bv) ==
  LET v == get_read_iovec(bv)
      cat[k \in 0..Len(v)] == IF k = 0 THEN <<>> ELSE cat[k - 1] \o v[k].bytes
  IN  cat[Len(v)]

(***************************************************************************)
(* A HandlerManager on its own: handle is called with patterns over two    *)
(* characters, and with handlers numbered by the call.                     *)
(***************************************************************************)
PatternChars == {"/", "a"}

\* The strings of at most n characters.
Strings(n) == UNION {[1..k -> PatternChars] : k \in 0..n}

InitHandlers ==
  /\ HandlersIdle
  /\ BufferIdle
  /\ TimerIdle
  /\ PoolIdle
  /\ UtilIdle
  /\ ServerDown
  /\ ParserIdle

\* handle(pattern, handler) is called.
Handle(pattern, handler) ==
  /\ hmlast.calls < MaxHandles
  /\ hm' = HM_handle(hm, pattern, handler).hm
  /\ hmlast' = [op |-> "handle", pattern |-> pattern, handler |-> handler,
                returns |-> HM_handle(hm, pattern, handler).returns,
                calls |-> hmlast.calls + 1]
  /\ UNCHANGED <<parser_vars, server_vars, buffer_vars, timer_vars,
               pool_vars, util_vars>>

\* default_handle(handler) is called.
DefaultHandle(handler) ==
  /\ hmlast.calls < MaxHandles
  /\ hm' = HM_default_handle(hm, handler).hm
  /\ hmlast' = [op |-> "default_handle", pattern |-> <<>>,
                handler |-> handler,
                returns |-> HM_default_handle(hm, handler).returns,
                calls |-> hmlast.calls + 1]
  /\ UNCHANGED <<parser_vars, server_vars, buffer_vars, timer_vars,
               pool_vars, util_vars>>

NextHandlers ==
  \/ \E pattern \in Strings(MaxPattern), handler \in {0, hmlast.calls + 1} :
       Handle(pattern, handler)
  \/ \E handler \in {0, hmlast.calls + 1} : DefaultHandle(handler)

SpecHandlers == InitHandlers /\ [][NextHandlers]_vars

(***************************************************************************)
(* A Timer on its own (specification SpecTimer): add, cancel and start     *)
(* called from one thread while the scheduler thread runs worker.  The     *)
(* callers and the worker take tasks_mutex_; the worker gives it up only   *)
(* in running_cv_.wait / wait_for and around the callback.                 *)
(***************************************************************************)
TaskIds == {1, 2}
Delays == {-1, 0}
Intervals == {-1, 0}
TimesArgs == {0, 2}

\* What is wrong with the arguments of an add, by the comment of add.
Wrong(has_call_back, start_delay, times, interval) ==
  {w \in {"call_back", "start_delay", "times", "interval"} :
     \/ w = "call_back" /\ ~has_call_back
     \/ w = "start_delay" /\ start_delay < 0
     \/ w = "times" /\ times = 0
     \/ w = "interval" /\ interval < 0}

\* The arguments add is called with: at most one of them is wrong.
AddArgs ==
  {a \in BOOLEAN \X Delays \X TimesArgs \X Intervals :
     Cardinality(Wrong(a[1], a[2], a[3], a[4])) <= 1}

\* A Timer as constructed, some time after the epoch of the clock.
InitTimer ==
  /\ timer = NewTimer
  /\ clock = Epoch + 1
  /\ worker = [pc |-> "none", now |-> Epoch]
  /\ invoked = [c \in 1..MaxTimerCalls |-> 0]
  /\ added = {}
  /\ cancelled = {}
  /\ updated = {}
  /\ tmlast = [op |-> "none", calls |-> 0]
  /\ ServerDown
  /\ ParserIdle
  /\ BufferIdle
  /\ HandlersIdle
  /\ PoolIdle
  /\ UtilIdle

\* A caller can take tasks_mutex_.
Unlocked == worker.pc # "locked"

\* The callback of the task stored under task_id, or being run under it
\* (0: none).
CallbackOf(tm, task_id) ==
  IF task_id \in DOMAIN tm.tasks_.key2index_
    THEN ValueAt(tm.tasks_, tm.tasks_.key2index_[task_id]).call_back
  ELSE IF tm.cur_task_ # nullptr /\ tm.cur_task_id_ = task_id
    THEN tm.cur_task_[1].call_back
  ELSE 0

\* The task stored under task_id, or being run under it, for a task_id that
\* CallbackOf finds.
TaskOf(tm, task_id) ==
  IF task_id \in DOMAIN tm.tasks_.key2index_
    THEN ValueAt(tm.tasks_, tm.tasks_.key2index_[task_id])
    ELSE tm.cur_task_[1]

\* One more call was made on the timer.
TimerCounted(call) ==
  /\ tmlast.calls < MaxTimerCalls
  /\ tmlast' = call @@ [calls |-> tmlast.calls + 1]
  /\ UNCHANGED <<parser_vars, server_vars, buffer_vars, handler_vars,
               pool_vars, util_vars>>

\* One more call was made on the timer, under tasks_mutex_.
TimerCalled(call) == Unlocked /\ TimerCounted(call)

\* Timer::add.  Every call that hands a callback hands a new one.
Add(task_id, has_call_back, start_delay, times, interval) ==
  LET call_back == IF has_call_back THEN tmlast.calls + 1 ELSE 0
      r == TM_add(timer, task_id, call_back, start_delay, times, interval,
                  clock)
      used == KV_count(timer.tasks_, task_id) # 0
      checked == check(call_back, start_delay, times, interval)
  IN /\ TimerCalled([op |-> "add", id |-> task_id, call_back |-> call_back,
                     checked |-> checked, used |-> used, ret |-> r.ret])
     /\ timer' = r.tm
     /\ added' = IF checked /\ ~used
                  THEN added \cup {[call_back |-> call_back, times |-> times]}
                  ELSE added
     /\ UNCHANGED <<clock, worker, invoked, cancelled, updated>>

\* Timer::cancel.
Cancel(task_id) ==
  LET r == TM_cancel(timer, task_id)
  IN /\ TimerCalled([op |-> "cancel", id |-> task_id,
                     queued |-> KV_count(timer.tasks_, task_id) # 0,
                     executing |-> timer.cur_task_ # nullptr
                                   /\ timer.cur_task_id_ = task_id,
                     times |-> IF r.ret THEN TaskOf(timer, task_id).times
                               ELSE 0,
                     ret |-> r.ret])
     /\ timer' = r.tm
     /\ cancelled' = IF r.ret THEN cancelled \cup {CallbackOf(timer, task_id)}
                     ELSE cancelled
     /\ UNCHANGED <<clock, worker, invoked, added, updated>>

\* The mutators handed to update: the task is to run as soon as it can.
Mutators == {[field |-> "next_run_time", value |-> Epoch]}

\* Timer::update.  Every call hands a new mutator.
Update(task_id, mutation) ==
  LET call_back == [mutator |-> tmlast.calls + 1, field |-> mutation.field,
                    value |-> mutation.value]
      r == TM_update(timer, task_id, call_back)
  IN /\ TimerCalled([op |-> "update", id |-> task_id,
                     queued |-> KV_count(timer.tasks_, task_id) # 0,
                     executing |-> timer.cur_task_ # nullptr
                                   /\ timer.cur_task_id_ = task_id,
                     ret |-> r.ret])
     /\ timer' = r.tm
     /\ updated' = IF r.ret
                   THEN updated \cup {[mutator |-> call_back.mutator,
                                       call_back |->
                                         CallbackOf(timer, task_id)]}
                   ELSE updated
     /\ UNCHANGED <<clock, worker, invoked, added, cancelled>>

\* Timer::stop.  It takes no mutex.
TimerStop ==
  LET r == TM_stop(timer)
  IN /\ TimerCounted([op |-> "stop", running |-> timer.running_,
                      ret |-> r.ret])
     /\ timer' = r.tm
     /\ UNCHANGED <<clock, worker, invoked, added, cancelled, updated>>

\* Timer::start.  The new thread has tasks_mutex_ to take.
TimerStart ==
  /\ TimerCalled([op |-> "start", ret |-> ~timer.running_])
  /\ IF timer.running_
       THEN UNCHANGED <<timer, worker>>
       ELSE /\ timer' = TM_start(timer, clock)
            /\ worker' = [worker EXCEPT !.pc = "waiting"]
  /\ UNCHANGED <<clock, invoked, added, cancelled, updated>>

\* The worker gets tasks_mutex_: as it starts, or as it comes back from
\* running_cv_.wait or wait_for (notified, timed out or woken spuriously).
WorkerWakes ==
  /\ worker.pc = "waiting"
  /\ worker' = [worker EXCEPT !.pc = "locked"]
  /\ UNCHANGED <<timer, clock, invoked, added, cancelled, updated, tmlast>>
  /\ UNCHANGED <<parser_vars, server_vars, buffer_vars, handler_vars,
               pool_vars, util_vars>>

\* Callbacks started so far.
RECURSIVE Starts(_)
Starts(c) == IF c = 0 THEN 0 ELSE invoked[c] + Starts(c - 1)

\* tasks_.back() in Timer::worker.  KVHeap declares no back(): the task is
\* the one top() returns or the last one of heap_, as the call is resolved.
BackReadings(h) == {KV_top(h), ValueAt(h, KV_size(h) - 1)}

\* One turn of the loop of Timer::worker with the mutex held, up to where
\* it waits, goes round again or, in run_one_task, calls the callback.
WorkerLoop ==
  /\ worker.pc = "locked"
  /\ IF ~timer.running_
       THEN /\ worker' = [worker EXCEPT !.pc = "none"]
            /\ UNCHANGED <<timer, invoked>>
     ELSE IF KV_empty(timer.tasks_)
       THEN /\ worker' = [worker EXCEPT !.pc = "waiting"]
            /\ UNCHANGED <<timer, invoked>>
     ELSE IF ~need_schedule(KV_top(timer.tasks_))
       THEN /\ timer' = [timer EXCEPT !.tasks_ = KV_pop(@).h]
            /\ UNCHANGED <<worker, invoked>>
     ELSE \E back \in BackReadings(timer.tasks_) :
            LET now == clock
                sleep_time == back.next_run_time - now
            IN IF sleep_time < 0
                 THEN /\ Starts(MaxTimerCalls) < MaxRuns
                      /\ timer' = TM_take(timer)
                      /\ invoked' =
                           [invoked EXCEPT
                              ![KV_pop(timer.tasks_).value.call_back] = @ + 1]
                      /\ worker' = [pc |-> "calling", now |-> now]
                 ELSE /\ worker' = [worker EXCEPT !.pc = "waiting"]
                      /\ UNCHANGED <<timer, invoked>>
  /\ UNCHANGED <<clock, added, cancelled, updated, tmlast>>
  /\ UNCHANGED <<parser_vars, server_vars, buffer_vars, handler_vars,
               pool_vars, util_vars>>

\* The callback returns or throws (the exception is swallowed); the worker
\* takes the mutex and finishes run_one_task.
CallbackReturns ==
  /\ worker.pc = "calling"
  /\ timer' = TM_finish(timer, worker.now)
  /\ worker' = [worker EXCEPT !.pc = "locked"]
  /\ UNCHANGED <<clock, invoked, added, cancelled, updated, tmlast>>
  /\ UNCHANGED <<parser_vars, server_vars, buffer_vars, handler_vars,
               pool_vars, util_vars>>

\* Time passes.
Tick ==
  /\ clock < Epoch + 1 + MaxTime
  /\ clock' = clock + 1
  /\ UNCHANGED <<timer, worker, invoked, added, cancelled, updated, tmlast>>
  /\ UNCHANGED <<parser_vars, server_vars, buffer_vars, handler_vars,
               pool_vars, util_vars>>

NextTimer ==
  \/ \E task_id \in TaskIds, a \in AddArgs :
       Add(task_id, a[1], a[2], a[3], a[4])
  \/ \E task_id \in TaskIds : Cancel(task_id)
  \/ \E task_id \in TaskIds, mutation \in Mutators : Update(task_id, mutation)
  \/ TimerStart
  \/ TimerStop
  \/ WorkerWakes
  \/ WorkerLoop
  \/ CallbackReturns
  \/ Tick

SpecTimer == InitTimer /\ [][NextTimer]_vars

(***************************************************************************)
(* A ThreadPool on its own (specification SpecPool): one thread makes the  *)
(* pool, calls push_task, pause, unpause and wait_for_tasks on it and      *)
(* destroys it, while the threads of threads_ run worker.  A step that     *)
(* takes tasks_mutex_ waits for it to be free; a thread blocked in a wait  *)
(* on a condition variable goes on when it is notified, or spuriously.     *)
(***************************************************************************)
Workers == 1..PoolThreads
PoolTasks == 1..MaxPush

\* The pool after its constructor: every thread at the top of worker.
InitPool ==
  /\ tp = ThreadPool
  /\ threads = [w \in Workers |-> [pc |-> "top", task |-> 0]]
  /\ user = [pc |-> "idle", op |-> "none"]
  /\ tplog = [NoPoolLog EXCEPT !.started = [t \in PoolTasks |-> 0],
                               !.finished = [t \in PoolTasks |-> 0]]
  /\ ServerDown
  /\ ParserIdle
  /\ BufferIdle
  /\ HandlersIdle
  /\ TimerIdle
  /\ UtilIdle

PoolAlive == ~tplog.terminated
PoolUnchanged == UNCHANGED <<parser_vars, server_vars, buffer_vars,
                             handler_vars, timer_vars, util_vars>>

\* The threads blocked in task_avail_cv_.wait.
Blocked == {w \in Workers : threads[w].pc = "blocked"}

\* task_avail_cv_.notify_one(): one of the blocked threads goes on, w when
\* there is one (any of them can be the one), none when none is blocked.
NotifyOne(w) ==
  IF Blocked = {} THEN threads' = threads
  ELSE /\ w \in Blocked
       /\ threads' = [threads EXCEPT ![w].pc = "woken"]

\* task_avail_cv_.notify_all().
NotifyAll ==
  threads' = [w \in Workers |->
                IF w \in Blocked THEN [threads[w] EXCEPT !.pc = "woken"]
                ELSE threads[w]]

\* push_task, to the end of the scoped_lock block: tasks_.push.
PushTask ==
  /\ PoolAlive
  /\ user.pc = "idle"
  /\ tplog.pushed < MaxPush
  /\ ~tp.tasks_mutex_
  /\ tp' = [tp EXCEPT !.tasks_ = Append(@, tplog.pushed + 1)]
  /\ user' = [pc |-> "pushed", op |-> "push_task"]
  /\ tplog' = [tplog EXCEPT
                 !.pushed = @ + 1,
                 !.held = IF tp.paused_ THEN @ \cup {tplog.pushed + 1} ELSE @,
                 !.parked = IF tp.paused_ THEN @ \cup {tplog.pushed + 1}
                            ELSE @,
                 !.last = "push_task"]
  /\ UNCHANGED threads
  /\ PoolUnchanged

\* push_task, the rest: ++tasks_total_; task_avail_cv_.notify_one().
PushTaskCounts(w) ==
  /\ PoolAlive
  /\ user.pc = "pushed"
  /\ tp' = [tp EXCEPT !.tasks_total_ = @ + 1]
  /\ NotifyOne(w)
  /\ user' = [pc |-> "idle", op |-> "none"]
  /\ UNCHANGED tplog
  /\ PoolUnchanged

\* pause().
Pause ==
  /\ PoolAlive
  /\ user.pc = "idle"
  /\ ~tp.paused_
  /\ tplog.pauses < MaxPauses
  /\ tp' = [tp EXCEPT !.paused_ = TRUE]
  /\ tplog' = [tplog EXCEPT !.pauses = @ + 1, !.last = "pause"]
  /\ UNCHANGED <<threads, user>>
  /\ PoolUnchanged

\* unpause().
Unpause ==
  /\ PoolAlive
  /\ user.pc = "idle"
  /\ tp.paused_
  /\ tp' = [tp EXCEPT !.paused_ = FALSE]
  /\ tplog' = [tplog EXCEPT !.held = {}, !.last = "unpause"]
  /\ UNCHANGED <<threads, user>>
  /\ PoolUnchanged

\* wait_for_tasks is entered, by the user (op is "wait_for_tasks") or by
\* the destructor (op is "~ThreadPool"): waiting_ = true.
WaitForTasks(op) ==
  /\ PoolAlive
  /\ user.pc = "idle"
  /\ tp' = [tp EXCEPT !.waiting_ = TRUE]
  /\ user' = [pc |-> "wait", op |-> op]
  /\ tplog' = [tplog EXCEPT !.blocked = FALSE, !.last = op]
  /\ UNCHANGED threads
  /\ PoolUnchanged

\* wait_for_tasks takes the mutex and evaluates the predicate of
\* task_done_cv_.wait: it blocks, or sets waiting_ = false and returns
\* (in the destructor, to destroy_threads).
WaitChecks ==
  /\ PoolAlive
  /\ user.pc = "wait"
  /\ ~tp.tasks_mutex_
  /\ IF task_done(tp)
     THEN /\ tp' = [tp EXCEPT !.waiting_ = FALSE]
          /\ user' = IF user.op \in {"~ThreadPool", "reset"}
                     THEN [user EXCEPT !.pc = "destroy_threads"]
                     ELSE [pc |-> "idle", op |-> "none"]
          /\ tplog' = [tplog EXCEPT !.last = "waited"]
     ELSE /\ user' = [user EXCEPT !.pc = "wait_blocked"]
          /\ tplog' = [tplog EXCEPT !.blocked = TRUE]
          /\ UNCHANGED tp
  /\ UNCHANGED threads
  /\ PoolUnchanged

\* destroy_threads: running_ = false; task_avail_cv_.notify_all().
DestroyThreads ==
  /\ PoolAlive
  /\ user.pc = "destroy_threads"
  /\ tp' = [tp EXCEPT !.running_ = FALSE]
  /\ NotifyAll
  /\ user' = [user EXCEPT !.pc = "join"]
  /\ UNCHANGED tplog
  /\ PoolUnchanged

\* destroy_threads: every threads_[i].join() has returned, and with it the
\* destructor; reset goes on.
Joined ==
  /\ PoolAlive
  /\ user.pc = "join"
  /\ \A w \in Workers : threads[w].pc \in {"exit", "none"}
  /\ user' = IF user.op = "reset" THEN [user EXCEPT !.pc = "recreate"]
             ELSE [pc |-> "destroyed", op |-> "none"]
  /\ tplog' = [tplog EXCEPT !.last = IF user.op = "reset" THEN "joined"
                                     ELSE "destroyed"]
  /\ UNCHANGED <<tp, threads>>
  /\ PoolUnchanged

\* worker at `while (running_)`, or woken in task_avail_cv_.wait: it leaves
\* the loop, or takes the mutex and evaluates the predicate of the wait.
WorkerEnters(w) ==
  /\ PoolAlive
  /\ threads[w].pc \in {"top", "woken"}
  /\ IF threads[w].pc = "top" /\ ~tp.running_
     THEN /\ threads' = [threads EXCEPT ![w].pc = "exit"]
          /\ UNCHANGED tp
     ELSE /\ ~tp.tasks_mutex_
          /\ tp' = [tp EXCEPT !.tasks_mutex_ = TRUE]
          /\ threads' = [threads EXCEPT
                           ![w].pc = IF task_avail(tp) THEN "locked"
                                     ELSE "checked"]
  /\ UNCHANGED <<user, tplog>>
  /\ PoolUnchanged

\* worker, the predicate of the wait found false: condition_variable::wait
\* releases the mutex and blocks, in one step.  What was notified before
\* this step does not reach the thread.
WorkerWaits(w) ==
  /\ PoolAlive
  /\ threads[w].pc = "checked"
  /\ tp' = [tp EXCEPT !.tasks_mutex_ = FALSE]
  /\ threads' = [threads EXCEPT ![w].pc = "blocked"]
  /\ UNCHANGED <<user, tplog>>
  /\ PoolUnchanged

\* worker, holding the mutex after the wait: `if (running_ && !paused_)`
\* it takes the front task and unlocks, else the iteration ends (and the
\* lock with it).  tasks_.front() of an empty queue is undefined: the
\* process ends.
WorkerTakes(w) ==
  /\ PoolAlive
  /\ threads[w].pc = "locked"
  /\ IF tp.running_ /\ ~tp.paused_ /\ tp.tasks_ = <<>>
     THEN /\ tplog' = [tplog EXCEPT !.terminated = TRUE]
          /\ UNCHANGED <<tp, threads>>
     ELSE /\ tp' = Taken(tp).p
          /\ IF Taken(tp).took
             THEN /\ threads' = [threads EXCEPT
                                   ![w] = [pc |-> "task",
                                           task |-> Head(tp.tasks_)]]
                  /\ tplog' = [tplog EXCEPT
                                 !.started[Head(tp.tasks_)] = @ + 1]
             ELSE /\ threads' = [threads EXCEPT ![w].pc = "top"]
                  /\ UNCHANGED tplog
  /\ UNCHANGED user
  /\ PoolUnchanged

\* task() ends: it returns, or it throws.  worker has no handler and is
\* the function of the thread: an exception that leaves it ends the
\* process (std::terminate).
TaskEnds(w, how) ==
  /\ PoolAlive
  /\ threads[w].pc = "task"
  /\ IF how = "returns"
     THEN /\ threads' = [threads EXCEPT ![w].pc = "done"]
          /\ tplog' = [tplog EXCEPT !.finished[threads[w].task] = @ + 1]
     ELSE /\ tplog' = [tplog EXCEPT !.terminated = TRUE]
          /\ UNCHANGED threads
  /\ UNCHANGED <<tp, user>>
  /\ PoolUnchanged

\* worker after task(): tasks_lock.lock(); --tasks_total_;
\* if (waiting_) task_done_cv_.notify_one(); and the end of the iteration.
WorkerCounts(w) ==
  /\ PoolAlive
  /\ threads[w].pc = "done"
  /\ ~tp.tasks_mutex_
  /\ tp' = [tp EXCEPT !.tasks_total_ = @ - 1]
  /\ threads' = [threads EXCEPT ![w] = [pc |-> "top", task |-> 0]]
  /\ user' = IF tp.waiting_ /\ user.pc = "wait_blocked"
             THEN [user EXCEPT !.pc = "wait"] ELSE user
  /\ UNCHANGED tplog
  /\ PoolUnchanged

\* A wait on a condition variable ends with no notification.
SpuriousWakeup(w) ==
  /\ PoolAlive
  /\ \/ /\ w \in Blocked
        /\ threads' = [threads EXCEPT ![w].pc = "woken"]
        /\ UNCHANGED user
     \/ /\ w = 0
        /\ user.pc = "wait_blocked"
        /\ user' = [user EXCEPT !.pc = "wait"]
        /\ UNCHANGED threads
  /\ UNCHANGED <<tp, tplog>>
  /\ PoolUnchanged

\* The steps of the thread that owns the pool inside a call.
UserGoesOn ==
  \/ \E w \in Workers : PushTaskCounts(w)
  \/ WaitChecks
  \/ DestroyThreads
  \/ Joined

\* The steps of the thread w of threads_.
WorkerStep(w) ==
  \/ WorkerEnters(w)
  \/ WorkerWaits(w)
  \/ WorkerTakes(w)
  \/ TaskEnds(w, "returns")
  \/ WorkerCounts(w)

NextPool ==
  \/ PushTask
  \/ Pause
  \/ Unpause
  \/ WaitForTasks("wait_for_tasks")
  \/ WaitForTasks("~ThreadPool")
  \/ UserGoesOn
  \/ \E w \in Workers : WorkerStep(w)
  \/ \E w \in Workers : TaskEnds(w, "throws")
  \/ \E w \in Workers \cup {0} : SpuriousWakeup(w)

SpecPool == InitPool /\ [][NextPool]_vars

\* reset(thread_count), to the entry of wait_for_tasks: was_paused is
\* saved, paused_ = true, waiting_ = true.
Reset(thread_count) ==
  /\ PoolAlive
  /\ user.pc = "idle"
  /\ tplog.resets < MaxResets
  /\ tp' = [tp EXCEPT !.paused_ = TRUE, !.waiting_ = TRUE]
  /\ user' = [pc |-> "wait", op |-> "reset"]
  /\ tplog' = [tplog EXCEPT
                 !.resets = @ + 1, !.blocked = FALSE, !.last = "reset",
                 !.reset = [thread_count |-> thread_count,
                            was_paused |-> tp.paused_,
                            tasks_ |-> tp.tasks_]]
  /\ UNCHANGED threads
  /\ PoolUnchanged

\* reset, after destroy_threads: thread_count_, the new array, paused_ and
\* create_threads.  With fewer elements in the array than thread_count_
\* create_threads assigns past its end: the process ends there, or it
\* goes on with the threads started and the memory behind the array
\* overwritten.
ResetCreates(ub) ==
  LET p == Recreated(tp, tplog.reset.thread_count, tplog.reset.was_paused)
      past == p.thread_count_ > p.threads_
  IN /\ PoolAlive
     /\ user.pc = "recreate"
     /\ IF past /\ ub = "fault"
        THEN /\ tplog' = [tplog EXCEPT !.terminated = TRUE]
             /\ UNCHANGED <<tp, threads, user>>
        ELSE /\ tp' = p
             /\ threads' = [w \in Workers |->
                              IF w <= p.thread_count_
                              THEN [pc |-> "top", task |-> 0]
                              ELSE [pc |-> "none", task |-> 0]]
             /\ user' = [pc |-> "idle", op |-> "none"]
             /\ tplog' = [tplog EXCEPT !.overrun = past,
                                       !.last = "reset_done"]
     /\ PoolUnchanged

\* The pool with reset called on it as well.
NextPoolReset ==
  \/ NextPool
  \/ \E thread_count \in 0..PoolThreads : Reset(thread_count)
  \/ \E ub \in {"fault", "goes on"} : ResetCreates(ub)

SpecPoolReset == InitPool /\ [][NextPoolReset]_vars

\* The scheduler runs every thread that can take a step, and a task that
\* does not throw returns.
SpecPoolFair ==
  /\ SpecPool
  /\ WF_vars(UserGoesOn)
  /\ \A w \in Workers : WF_vars(WorkerStep(w))

(***************************************************************************)
(* A Buffer on its own (specification SpecFlat): a thread constructs it    *)
(* and calls ensure_writeable, fills it from a file descriptor as the read *)
(* loop of consume_from_fd does, writes to it, consumes and clears it.     *)
(***************************************************************************)
FlatCapacities == 1..MaxCap
FlatSizes == 1..MaxNeed

InitFlat ==
  /\ \E capacity \in FlatCapacities :
       \E size \in {capacity, 0},
          stale \in {[block |-> 1, off |-> 0], NullPtr} :
         fbuf = NewBuffer(capacity, size, stale)
  /\ fblog = [NoBufferLog EXCEPT !.op = "Buffer"]
  /\ HeapIdle
  /\ ResourceIdle
  /\ TextIdle
  /\ ServerDown
  /\ ParserIdle
  /\ BufferIdle
  /\ HandlersIdle
  /\ TimerIdle
  /\ PoolIdle

FlatCallable == ~fblog.fault /\ fblog.calls < MaxFlatCalls
FlatUnchanged == UNCHANGED <<parser_vars, server_vars, buffer_vars,
                             handler_vars, timer_vars, pool_vars, heap_vars,
                             respool_vars, txt>>

\* The bytes written are numbered in the order they arrive.
FlatBytes(n) == [i \in 1..n |-> fblog.calls * MaxNeed + i]

\* std::copy of the readable bytes to the new block writes past it when
\* there are more of them than size * 2.
CopyOverflows(b, size) ==
  /\ Buffer_writeable_size(b) < size
  /\ (b.read_ptr_.off - b.begin_ptr_.off) + Buffer_writeable_size(b) <= size
  /\ Buffer_readable_size(b) > size * 2

FlatLogged(op, n, got, fault) ==
  /\ fblog' = [op |-> op, n |-> n, got |-> got, calls |-> fblog.calls + 1,
               fault |-> fault]
  /\ FlatUnchanged

\* buf.ensure_writeable(n).
FbEnsure(n) ==
  /\ FlatCallable
  /\ fbuf' = Buffer_ensure_writeable(fbuf, n)
  /\ FlatLogged("ensure_writeable", n, 0, CopyOverflows(fbuf, n))

\* One round of the read loop of consume_from_fd: ensure_writeable(n),
\* ::read(fd, cur_write_ptr(), n), which delivers readn bytes when the
\* pointer is in the process's memory and fails with EFAULT (-1) when it is
\* not, and update_write_ptr(readn).  Bytes delivered past the block
\* overwrite other memory.
FbReadFd(n, readn) ==
  LET b == Buffer_ensure_writeable(fbuf, n) IN
  /\ FlatCallable
  /\ readn \in 1..n
  /\ IF b.write_ptr_.block # b.data_.id
     THEN /\ fbuf' = b
          /\ FlatLogged("read_fd", n, -1, CopyOverflows(fbuf, n))
     ELSE /\ fbuf' = Buffer_update_write_ptr(
                       [b EXCEPT !.data_ =
                          BlockCopy(@, FlatBytes(readn), b.write_ptr_.off)],
                       readn)
          /\ FlatLogged("read_fd", n, readn,
                        CopyOverflows(fbuf, n)
                        \/ ~InStorage(b, b.write_ptr_, readn))

\* buf.write(str, n): ensure_writeable, std::copy to write_ptr_, then
\* write_ptr_ += n.  A copy to a pointer outside the block faults.
FbWrite(n) ==
  LET b == Buffer_ensure_writeable(fbuf, n) IN
  /\ FlatCallable
  /\ fbuf' = [b EXCEPT
                !.data_ = IF b.write_ptr_.block = b.data_.id
                          THEN BlockCopy(@, FlatBytes(n), b.write_ptr_.off)
                          ELSE @,
                !.write_ptr_ = PtrAdd(@, n)]
  /\ FlatLogged("write", n, n,
                CopyOverflows(fbuf, n) \/ ~InStorage(b, b.write_ptr_, n))

\* buf.update_read_ptr(step), as the parser consumes what it has parsed.
FbConsume(step) ==
  /\ FlatCallable
  /\ fbuf' = Buffer_update_read_ptr(fbuf, step)
  /\ FlatLogged("update_read_ptr", step, 0, FALSE)

\* buf.clear().
FbClear ==
  /\ FlatCallable
  /\ fbuf' = Buffer_clear(fbuf)
  /\ FlatLogged("clear", 0, 0, FALSE)

NextFlat ==
  \/ \E n \in FlatSizes : FbEnsure(n)
  \/ \E n \in FlatSizes, readn \in FlatSizes : FbReadFd(n, readn)
  \/ \E n \in FlatSizes : FbWrite(n)
  \/ \E step \in FlatSizes : FbConsume(step)
  \/ FbClear

SpecFlat == InitFlat /\ [][NextFlat]_vars

(***************************************************************************)
(* A KVHeap<ID, Task, cmp_> on its own (specification SpecHeap), as the    *)
(* Timer uses it: push (Timer::add), erase (Timer::cancel), update of one  *)
(* element (Timer::update), update of all (Timer::start) and pop (the      *)
(* scheduler).  A pushed key is the least key the heap does not hold.      *)
(***************************************************************************)
HeapKeys == 1..MaxKeys
Whens == 1..MaxWhen
HeapTask(when) == [next_run_time |-> when, start_delay |-> when]

InitHeap ==
  /\ kv = NewKVHeap
  /\ kvlog = [NoHeapLog EXCEPT !.op = "KVHeap"]
  /\ FlatIdle
  /\ ResourceIdle
  /\ TextIdle
  /\ ServerDown
  /\ ParserIdle
  /\ BufferIdle
  /\ HandlersIdle
  /\ TimerIdle
  /\ PoolIdle

\* The least next_run_time in the heap (0 when it is empty).
Least(h) ==
  IF h.heap_ = <<>> THEN 0
  ELSE CHOOSE t \in {h.heap_[i].value.next_run_time : i \in 1..Len(h.heap_)} :
         \A i \in 1..Len(h.heap_) : t <= h.heap_[i].value.next_run_time

HeapLogged(op, key, popped) ==
  /\ kvlog.calls < MaxHeapCalls
  /\ kvlog' = [op |-> op, key |-> key, calls |-> kvlog.calls + 1,
               popped |-> popped, least |-> Least(kv)]
  /\ UNCHANGED <<parser_vars, server_vars, buffer_vars, handler_vars,
                 timer_vars, pool_vars, flat_vars, respool_vars, txt>>

\* tasks_.push(key, task).
HeapPush(key, when) ==
  /\ key \notin KV_keys(kv)
  /\ \A k \in HeapKeys : k < key => k \in KV_keys(kv)
  /\ kv' = KV_push(kv, key, HeapTask(when)).h
  /\ HeapLogged("push", key, 0)

\* tasks_.erase(key).
HeapErase(key) ==
  /\ kv' = KV_erase(kv, key).h
  /\ HeapLogged("erase", key, 0)

\* tasks_.update(key, call_back), the call_back setting next_run_time.
HeapUpdate(key, when) ==
  /\ key \in KV_keys(kv)
  /\ kv' = KV_update(kv, key,
                     [field |-> "next_run_time", value |-> when]).h
  /\ HeapLogged("update", key, 0)

\* tasks_.update(call_back), the call_back of Timer::start.
HeapUpdateAll(now) ==
  /\ kv.heap_ # <<>>
  /\ kv' = KV_update_reset(kv, now)
  /\ HeapLogged("update_all", 0, 0)

\* tasks_.pop().
HeapPop ==
  /\ kv.heap_ # <<>>
  /\ kv' = KV_pop(kv).h
  /\ HeapLogged("pop", KV_pop(kv).key, KV_pop(kv).value.next_run_time)

NextHeap ==
  \/ \E key \in HeapKeys, when \in Whens : HeapPush(key, when)
  \/ \E key \in HeapKeys : HeapErase(key)
  \/ \E key \in HeapKeys, when \in Whens : HeapUpdate(key, when)
  \/ \E now \in {0, 1} : HeapUpdateAll(now)
  \/ HeapPop

SpecHeap == InitHeap /\ [][NextHeap]_vars

(***************************************************************************)
(* A ResourcePool on its own (specification SpecResource): callers get     *)
(* resources and release the handles they hold, and set_max_count is       *)
(* called on the pool of resource_pool.h.                                  *)
(***************************************************************************)
InitResource ==
  /\ \/ \E alloc_count \in 1..MaxAlloc, max_count \in 1..MaxResources :
          rpool = NewResourcePool(alloc_count, max_count)
     \/ \E min_count \in 0..MaxAlloc, max_count \in 1..MaxResources :
          rpool = NewResourcePool_hpp(min_count, max_count)
  /\ rplog = [NoResourceLog EXCEPT !.op = "ResourcePool"]
  /\ FlatIdle
  /\ HeapIdle
  /\ TextIdle
  /\ ServerDown
  /\ ParserIdle
  /\ BufferIdle
  /\ HandlersIdle
  /\ TimerIdle
  /\ PoolIdle

ResourceCalled(op, got, out) ==
  /\ ~rpool.stuck
  /\ rplog.calls < MaxResourceCalls
  /\ rplog' = [op |-> op, ret |-> got, calls |-> rplog.calls + 1,
               out |-> out]
  /\ UNCHANGED <<parser_vars, server_vars, buffer_vars, handler_vars,
                 timer_vars, pool_vars, flat_vars, heap_vars, txt>>

\* What the callers hold after a get that returned ret.
Held(got) == IF got = 0 THEN rplog.out ELSE Append(rplog.out, got)

\* pool.get() on the pool of resource_pool.h.
RpGet ==
  /\ rpool.file = "resource_pool.h"
  /\ rpool' = RP_get(rpool).rp
  /\ ResourceCalled("get", RP_get(rpool).ret, Held(RP_get(rpool).ret))

\* pool->get() on the pool of resource_pool.hpp.
RpGetHpp(ub) ==
  /\ rpool.file = "resource_pool.hpp"
  /\ rpool' = RP_get_hpp(rpool, ub).rp
  /\ ResourceCalled("get", RP_get_hpp(rpool, ub).ret,
                    Held(RP_get_hpp(rpool, ub).ret))

\* The i-th handle held is released: the deleter of the shared_ptr runs.
RpRelease(i) ==
  /\ i \in 1..Len(rplog.out)
  /\ rpool' = recycle(rpool, rplog.out[i])
  /\ ResourceCalled("release", rplog.out[i],
                    SubSeq(rplog.out, 1, i - 1)
                    \o SubSeq(rplog.out, i + 1, Len(rplog.out)))

\* pool.set_max_count(max_count).
RpSetMax(max_count) ==
  /\ rpool.file = "resource_pool.h"
  /\ rpool' = set_max_count(rpool, max_count)
  /\ ResourceCalled("set_max_count", 0, rplog.out)

NextResource ==
  \/ RpGet
  \/ \E ub \in {"blocks", "goes on"} : RpGetHpp(ub)
  \/ \E i \in 1..MaxResourceCalls : RpRelease(i)
  \/ \E max_count \in 0..MaxResources : RpSetMax(max_count)

SpecResource == InitResource /\ [][NextResource]_vars

(***************************************************************************)
(* INI::parse and Parser::parse_form on their own (specification           *)
(* SpecText): one call on a text, followed one loop iteration at a time.   *)
(***************************************************************************)
IniChars == {"a", "=", "[", "]", ";", SP, LF}
FormChars == {"a", "=", "&", "+"}
CommentTypes == {";", "#", "POSSIBLE"}
Texts(chars) == UNION {[1..n -> chars] : n \in 0..MaxText}

InitText ==
  /\ \/ \E content \in Texts(IniChars), type \in CommentTypes :
          txt = [NoText EXCEPT !.fn = "INI::parse", !.input = content,
                               !.data = content, !.type = type,
                               !.pc = "loop"]
     \/ \E data \in Texts(FormChars) :
          txt = [NoText EXCEPT !.fn = "Parser::parse_form",
                               !.input = data, !.data = data,
                               !.pc = "loop"]
  /\ FlatIdle
  /\ HeapIdle
  /\ ResourceIdle
  /\ ServerDown
  /\ ParserIdle
  /\ BufferIdle
  /\ HandlersIdle
  /\ TimerIdle
  /\ PoolIdle

TextUnchanged ==
  UNCHANGED <<parser_vars, server_vars, buffer_vars, handler_vars,
              timer_vars, pool_vars, flat_vars, heap_vars, respool_vars>>

\* The body of the loop of INI::parse past getline and trim, on a line
\* that is neither empty nor a comment.  p_sec is read though no section
\* line has set it (ub: what its bytes are taken for).
IniLine(t, line, ub) ==
  IF line[1] = "["
    THEN IF line[Len(line)] # "]" THEN [t EXCEPT !.pc = "threw"]
         ELSE LET sec_name == SubSeq(line, 2, Len(line) - 1)
              IN [t EXCEPT !.obj = IF sec_name \in DOMAIN t.obj THEN @
                                   ELSE @ @@ (sec_name :> EmptyHeader),
                           !.p_sec = sec_name]
  ELSE LET pos == find_first_of(line, "=")
       IN IF pos = npos THEN [t EXCEPT !.pc = "threw"]
          ELSE IF t.p_sec = "unset"
            THEN [t EXCEPT !.pc = IF ub = "nullptr" THEN "threw"
                                  ELSE "fault"]
          ELSE [t EXCEPT !.obj[t.p_sec] =
                  emplace(@, rtrim(SubSeq(line, 1, pos)),
                          ltrim(substr(line, pos + 1)))]

\* One evaluation of the loop condition of INI::parse and, when it holds,
\* one run of the body.
IniStep(ub) ==
  /\ txt.fn = "INI::parse"
  /\ txt.pc = "loop"
  /\ IF txt.data = <<>>
       THEN txt' = [txt EXCEPT !.pc = "returned"]
       ELSE /\ txt.iters < MaxTextIters
            /\ LET got == getline(txt.data, LF)
                   line == trim(got.str)
                   t == [txt EXCEPT !.data = got.input,
                                    !.seen = Append(@, got.str),
                                    !.iters = @ + 1]
               IN txt' = IF line = <<>> \/ is_comment_line(line, txt.type)
                           THEN t
                           ELSE IniLine(t, line, ub)
  /\ TextUnchanged

\* One evaluation of the loop condition of Parser::parse_form (getline,
\* then !data.empty()) and, when it holds, one run of the body.
FormStep ==
  /\ txt.fn = "Parser::parse_form"
  /\ txt.pc = "loop"
  /\ txt.iters < MaxTextIters
  /\ LET got == getline(txt.data, "&")
         line == got.str
         pos == find_first_of(line, "=")
         t == [txt EXCEPT !.data = got.input, !.iters = @ + 1]
     IN txt' = IF got.input = <<>> THEN [t EXCEPT !.pc = "returned"]
               ELSE IF pos = npos
                 THEN [t EXCEPT !.seen = Append(@, line),
                                !.obj = EmptyHeader, !.pc = "rejected"]
               ELSE [t EXCEPT !.seen = Append(@, line),
                              !.obj = emplace(@,
                                parse_form_elem(SubSeq(line, 1, pos)),
                                parse_form_elem(substr(line, pos + 1)))]
  /\ TextUnchanged

NextText ==
  \/ \E ub \in {"nullptr", "other"} : IniStep(ub)
  \/ FormStep

SpecText == InitText /\ [][NextText]_vars

(***************************************************************************)
(* Properties of HandlerManager (specification SpecHandlers).              *)
(***************************************************************************)
\* The registered patterns that end in "/" and are a prefix of u.
PrefixPatterns(u) ==
  {p \in DOMAIN hm.pattern2handler_ : ends_with(p, "/") /\ starts_with(u, p)}

\* The longest of a set of patterns.
Longest(ps) == CHOOSE p \in ps : \A q \in ps : Len(q) <= Len(p)

\* C17 as stated: whenever a registered pattern ending in "/" is a prefix
\* of u, match(u) is the handler registered under the longest such pattern.
C17_LongestPrefixAlways ==
  \A u \in Strings(MaxPattern + 1) :
    PrefixPatterns(u) # {}
      => HM_match(hm, u) = hm.pattern2handler_[Longest(PrefixPatterns(u))]

\* C17: whenever a registered pattern ending in "/" is a prefix of u,
\* match(u) is the handler registered under u itself if u is a registered
\* pattern, and else the handler registered under the longest such pattern.
C17_ExactThenLongestPrefix ==
  \A u \in Strings(MaxPattern + 1) :
    PrefixPatterns(u) # {}
      => HM_match(hm, u)
           = IF u \in DOMAIN hm.pattern2handler_ THEN hm.pattern2handler_[u]
             ELSE hm.pattern2handler_[Longest(PrefixPatterns(u))]

\* Two patterns ending in "/" are prefixes of a URI that is not registered,
\* and the longer one was registered second.
C17_Witness ==
  \E u \in Strings(MaxPattern + 1) :
    /\ u \notin DOMAIN hm.pattern2handler_
    /\ Cardinality(PrefixPatterns(u)) = 2
    /\ Len(hm.handlers_[1][1]) > Len(hm.handlers_[2][1])
    /\ hm.handlers_[1][2] > hm.handlers_[2][2]

\* No registered pattern matches the URI u.
NoPattern(u) == u \notin DOMAIN hm.pattern2handler_ /\ PrefixPatterns(u) = {}

\* C27: for a request whose URI no registered pattern matches, the server
\* invokes the default handler when one has been registered, and closes
\* the connection only when none has.
C27_DefaultHandlerInvoked ==
  \A u \in Strings(MaxPattern + 1) :
    NoPattern(u) =>
      Dispatched(hm, u) =
        IF hm.default_handler_ # nullptr
        THEN [invoked |-> Deref(hm.default_handler_), closed |-> FALSE]
        ELSE [invoked |-> 0, closed |-> TRUE]

(***************************************************************************)
(* Properties of the parser (specification SpecParser).                    *)
(***************************************************************************)
Range(f) == {f[i] : i \in DOMAIN f}
NoDuplicates(f) == \A i, j \in DOMAIN f : f[i] = f[j] => i = j

\* The request in progress has fewer body bytes, buffered ones included,
\* than its Content-Length.
BodyShort ==
  /\ pc = "loop"
  /\ parser.state_ = "PARSING_REQUEST_BODY"
  /\ Len(Deref(parser.obj_).body_) + readable_size(parser)
       < parser.req_body_size_

BodyCompletesWithBytesLeft ==
  /\ pc = "loop"
  /\ parser.state_ = "PARSING_REQUEST_BODY"
  /\ Len(Deref(parser.obj_).body_) + readable_size(parser)
       > parser.req_body_size_

HeaderInProgress == Deref(parser.obj_).header_

TasksOn(conn) == {i \in DOMAIN tasks : tasks[i].conn = conn}

Called(call) == \E i \in DOMAIN last.calls : last.calls[i] = call

\* The client fd is closed, out of the table and out of the notifier.
Closed(fd) ==
  /\ fd \notin open_fds
  /\ fd \notin DOMAIN conn_
  /\ fd \notin DOMAIN epoll

C4_AcceptedIsRegistered ==
  last.op = "accept" =>
    /\ last.conn \in DOMAIN conn_
    /\ conn_[last.conn].fd_ = last.conn
    /\ last.conn \in open_fds
    /\ last.conn \in DOMAIN epoll
    /\ {"EPOLLONESHOT", "EPOLLIN", "EPOLLRDHUP"}
         \subseteq epoll[last.conn].events
    /\ epoll[last.conn].ptr = Ptr(last.conn)

Methods == {"GET", "POST", "HEAD", "PUT", "DELETE", "TRACE", "CONNECT"}

\* The line the parser in PARSING_REQUEST_LINE is about to take.
PendingLine ==
  SubSeq(view(parser, stream), 1, Find(view(parser, stream)) - 1)

\* line is METHOD SP URI SP HTTP/VERSION with a method of the set.
WellFormedRequestLine(line) ==
  /\ Len(line) = 6
  /\ line[1] \in Methods
  /\ line[2] = SP /\ line[3] # SP
  /\ line[4] = SP /\ line[5] = HTTP_SLASH /\ line[6] # SP

\* C11: in PARSING_REQUEST_LINE a well-formed line with a method of the set
\* populates method, uri and version and moves the parser to
\* PARSING_REQUEST_HEADER; every other line puts the parser in
\* ERROR_REQUEST_LINE, and the call returns that state and no request.
C11_RequestLineOutcome ==
  [][ ( /\ pc = "loop"
        /\ parser.state_ = "PARSING_REQUEST_LINE"
        /\ Find(view(parser, stream)) # 0 )
      => IF WellFormedRequestLine(PendingLine)
         THEN /\ pc' = "loop"
              /\ parser'.state_ = "PARSING_REQUEST_HEADER"
              /\ Deref(parser'.obj_).method_ = PendingLine[1]
              /\ Deref(parser'.obj_).uri_ = <<PendingLine[3]>>
              /\ Deref(parser'.obj_).version_ = <<PendingLine[6]>>
         ELSE /\ pc' = "idle"
              /\ parser'.state_ = "ERROR_REQUEST_LINE"
              /\ ret' = [state |-> "ERROR_REQUEST_LINE", req |-> nullptr]
    ]_vars

(***************************************************************************)
(* C12: Server::stop.                                                      *)
(***************************************************************************)
\* C12: a call of stop() on a running server leaves the running flag false
\* (so that the loop of start() ends at its next test); a call on a server
\* that is not running returns false and changes nothing.
C12_StopClearsRunning ==
  [][ Len(stop_rets') = Len(stop_rets) + 1
      => IF running_
         THEN ~running_'
         ELSE /\ stop_rets'[Len(stop_rets')] = FALSE
              /\ UNCHANGED <<outer_vars, listen_fd_, conn_, epoll, open_fds,
                             sock, backlog, accepted, tasks, last, terminated,
                             running_>>
    ]_vars

(***************************************************************************)
(* Properties of BufferVector (specification SpecBuffer).                  *)
(***************************************************************************)
\* Object b has been used through write(src, n) and read(dest, n) only.
Plain(b) ==
  \A i \in 1..Len(bvlog[b].ops) : bvlog[b].ops[i].op \in {"write", "read"}

\* C13: on an object used through write(src, n) and read(dest, n) only, the
\* bytes the reads returned, followed by the bytes of the regions of
\* get_read_iovec(), are the bytes written, in order; and the bytes written
\* are as many as the bytes read plus readable_size().
C13_FifoQueue ==
  \A b \in Buffers :
    Plain(b) =>
      /\ ~bufs[b].fault
      /\ bvlog[b].got \o ReadView(bufs[b]) = bvlog[b].written
      /\ Len(bvlog[b].written)
           = Len(bvlog[b].got) + BV_readable_size(bufs[b])

\* Bytes were written and read, and the bytes left span two Segments.
C13_Witness ==
  \E b \in Buffers :
    /\ Plain(b)
    /\ \E i \in 1..Len(bvlog[b].ops) : bvlog[b].ops[i].op = "write"
    /\ bvlog[b].got # <<>>
    /\ Len(get_read_iovec(bufs[b])) >= 2

\* C14: write(buffer, s, deleter) makes the s bytes of the block readable,
\* after everything readable before: readable_size() grows by s and the
\* read view ends with the block; and on a new object, handing a block in
\* and then writing two bytes gives a read view of two regions, the block
\* and then the two bytes.
C14_ForeignSegmentReadable ==
  [][ /\ bvlast'.op = "write_foreign"
        => /\ BV_readable_size(bufs'[bvlast'.buf])
                = BV_readable_size(bufs[bvlast'.buf]) + bvlast'.n
           /\ ReadView(bufs'[bvlast'.buf])
                = ReadView(bufs[bvlast'.buf])
                  \o BlockBytes(BlocksMade + 1, bvlast'.n)
      /\ ( /\ bvlast'.op = "write"
           /\ bvlast'.n = 2
           /\ Len(bvlog[bvlast'.buf].ops) = 1
           /\ bvlog[bvlast'.buf].ops[1].op = "write_foreign" )
        => LET v == get_read_iovec(bufs'[bvlast'.buf])
               size == bvlog[bvlast'.buf].ops[1].n
           IN  /\ Len(v) = 2
               /\ v[1].data = 1 /\ v[1].iov_base = 0 /\ v[1].iov_len = size
               /\ v[1].bytes = BlockBytes(1, size)
               /\ v[2].data = 0 /\ v[2].iov_len = 2
               /\ v[2].bytes = NextBytes(2)
    ]_vars

\* C15: b.write(other) moves the readable bytes of other to b, in order:
\* afterwards the readable bytes of b are those it had, followed by those
\* other had; readable_size() of b has grown by what readable_size() of
\* other was; other has readable_size() 0 and takes a write as a new object
\* does.
C15_WriteBufferAppends ==
  [][ bvlast'.op = "write_buffer"
      => LET b == bvlast'.buf
             other == bvlast'.n
         IN  /\ ReadView(bufs'[b])
                  = ReadView(bufs[b]) \o ReadView(bufs[other])
             /\ BV_readable_size(bufs'[b])
                  = BV_readable_size(bufs[b]) + BV_readable_size(bufs[other])
             /\ BV_readable_size(bufs'[other]) = 0
             /\ ReadView(BV_write(bufs'[other], <<1>>, "fault")) = <<1>>
    ]_vars

\* The blocks whose deleter has been invoked, in the order of the calls.
Released == bufs[1].released \o bufs[2].released

\* The Segments that hold block id and its deleter.
Holders(id) ==
  {c \in {<<b, i>> : b \in Buffers, i \in 1..(2 * MaxOps + 2)} :
     /\ c[2] <= Len(bufs[c[1]].data_)
     /\ bufs[c[1]].data_[c[2]].data = id
     /\ bufs[c[1]].data_[c[2]].deleter}

Times(id, seq) == Cardinality({i \in 1..Len(seq) : seq[i] = id})

\* C16: the deleter of a block handed in is invoked once: either one Segment
\* holds the block and it has not been invoked, or no Segment holds it and
\* it has been invoked once, which is the case for every block when the
\* objects are destroyed.  It is invoked only by a read that takes every
\* byte up to the last one of its Segment, by clear(), or by the destruction
\* of the object; never by moving the Segment.
C16_ReleasedOnce ==
  [][ /\ \A id \in 1..BlocksMade' :
           Cardinality(Holders(id)') + Times(id, Released') = 1
      /\ Released' # Released
           => \/ bvlast'.op \in {"clear", "destroy"}
              \/ /\ bvlast'.op = "read"
                 /\ \E k \in 1..Len(bufs[bvlast'.buf].data_) :
                      /\ bufs[bvlast'.buf].data_[k].data = 1
                      /\ Len(bvlog'[bvlast'.buf].got)
                           - Len(bvlog[bvlast'.buf].got)
                           >= SumSizes(bufs[bvlast'.buf].data_, 1, k)
                                - bufs[bvlast'.buf].n_read_
    ]_vars

\* A block has been released by a read that consumed it.
C16_Witness ==
  \E b \in Buffers :
    /\ Len(bvlog[b].ops) = 3
    /\ bvlog[b].ops[1].op = "write_foreign"
    /\ bvlog[b].ops[2].op = "write"
    /\ bvlog[b].ops[3].op = "read"
    /\ bufs[b].released = <<1>>
    /\ Holders(1) = {}

(***************************************************************************)
(* Properties of Timer (specification SpecTimer).                          *)
(***************************************************************************)
\* The callbacks of the tasks in the heap.
Scheduled == {timer.tasks_.heap_[i].value.call_back :
                i \in 1..Len(timer.tasks_.heap_)}

\* The runs the task with the callback has left: its times in the heap;
\* its times less the run in progress while its callback executes.
Left(call_back) ==
  IF \E i \in 1..Len(timer.tasks_.heap_) :
       timer.tasks_.heap_[i].value.call_back = call_back
    THEN LET i == CHOOSE i \in 1..Len(timer.tasks_.heap_) :
                    timer.tasks_.heap_[i].value.call_back = call_back
         IN timer.tasks_.heap_[i].value.times
  ELSE IF timer.cur_task_ # nullptr
          /\ timer.cur_task_[1].call_back = call_back
    THEN timer.cur_task_[1].times - 1
  ELSE 0

\* C18: a task added with finite times = k > 0 (arguments Task::check
\* passes, an id that is free) and never cancelled has had its callback
\* started k times when it has no run left, and never more: at every
\* moment the starts so far and the runs still scheduled add up to k, and
\* once the callback was started k times the task is not in the heap.
C18_InvokedTimes ==
  \A a \in added :
    a.call_back \notin cancelled =>
      /\ invoked[a.call_back] + Left(a.call_back) = a.times
      /\ invoked[a.call_back] = a.times => a.call_back \notin Scheduled

\* C19: add returns false and leaves the heap as it was when the id is in
\* the heap already or Task::check fails on the arguments (empty callback,
\* negative start_delay or interval, times == 0); in every other case it
\* returns true and the task, with the callback handed, is in the heap
\* under the id.
C19_AddContract ==
  [][tmlast'.calls # tmlast.calls /\ tmlast'.op = "add" =>
       IF tmlast'.used \/ ~tmlast'.checked
       THEN ~tmlast'.ret /\ timer'.tasks_ = timer.tasks_
       ELSE /\ tmlast'.ret
            /\ tmlast'.id \in KV_keys(timer'.tasks_)
            /\ CallbackOf(timer', tmlast'.id) = tmlast'.call_back]_vars

\* What a call of cancel has to do, by what it found.
CancelStep ==
  tmlast'.calls # tmlast.calls /\ tmlast'.op = "cancel" =>
    IF tmlast'.queued
      THEN tmlast'.ret /\ tmlast'.id \notin KV_keys(timer'.tasks_)
    ELSE IF tmlast'.executing
      THEN tmlast'.ret /\ timer'.tasks_ = timer.tasks_
    ELSE ~tmlast'.ret /\ timer' = timer

HeapOrdered(h) ==
  \A i \in 1..(Len(h.heap_) - 1) :
    ~cmp_(ValueAt(h, parent(i)), ValueAt(h, i))

\* The mutator waits in update_cur_task_ for the callback to return.
Pending(mutator) ==
  /\ timer.update_cur_task_ # nullptr
  /\ timer.update_cur_task_[1].mutator = mutator

\* What a call of update that returns true has to do, by what it found,
\* and when mutators may be called at all.
UpdateStep ==
  /\ tmlast'.calls # tmlast.calls /\ tmlast'.op = "update" /\ tmlast'.ret =>
       IF tmlast'.queued
         THEN /\ timer'.applied = Append(timer.applied, tmlast'.calls)
              /\ HeapOrdered(timer'.tasks_)
         ELSE timer'.applied = timer.applied
  /\ timer'.applied # timer.applied =>
       \/ tmlast'.calls # tmlast.calls /\ tmlast'.op = "update"
       \/ worker.pc = "calling" /\ worker'.pc = "locked"

\* C21: the mutator of every update call that returned true, for a task
\* that was not cancelled, is called once: at every moment it has been
\* called once, or it waits for the callback of its task to return and has
\* not been called.  For a queued task it is called in the call of update,
\* which leaves the heap ordered; for an executing task it is called when
\* the callback has returned, not before; several updates may arrive while
\* one callback executes.
C21_MutatorAppliedOnce ==
  /\ [](\A u \in updated :
          u.call_back \notin cancelled =>
            Times(u.mutator, timer.applied)
              + (IF Pending(u.mutator) THEN 1 ELSE 0) = 1)
  /\ [][UpdateStep]_vars


\* C22: stop() on a running timer returns true and leaves the timer not
\* running; stop() returns false only on a timer that is not running, and
\* start() returns false only on a timer that is running.
C22_StopStart ==
  [][tmlast'.calls # tmlast.calls =>
       /\ tmlast'.op = "stop" =>
            IF timer.running_
            THEN tmlast'.ret = "true" /\ ~timer'.running_
            ELSE tmlast'.ret = "false" /\ ~timer'.running_
       /\ tmlast'.op = "start" =>
            /\ tmlast'.ret = ~timer.running_
            /\ timer'.running_]_vars

(***************************************************************************)
(* Properties of ThreadPool (specifications SpecPool and SpecPoolFair).    *)
(***************************************************************************)
\* The tasks push_task was called with so far.
Pushed == 1..tplog.pushed

\* The shared counter of test_thread_pool.cpp, had it started at 0: every
\* task adds 2 to it when it runs.
RECURSIVE Counter(_)
Counter(n) == IF n = 0 THEN 0 ELSE 2 * tplog.finished[n] + Counter(n - 1)

\* C23: when wait_for_tasks returns on a pool that is not paused, to the
\* only thread that pushes, every task pushed so far was started once and
\* has returned once: the counter is twice the number of tasks pushed.
C23_WaitedAllRan ==
  (tplog.last = "waited" /\ ~tp.paused_) =>
    /\ \A t \in Pushed : tplog.started[t] = 1 /\ tplog.finished[t] = 1
    /\ Counter(MaxPush) = 2 * tplog.pushed

\* wait_for_tasks has blocked and returned with every task pushed.
C23_Witness ==
  /\ tplog.last = "waited"
  /\ tplog.blocked
  /\ ~tp.paused_
  /\ user.pc = "idle"
  /\ tplog.pushed = MaxPush

\* C24: when the destructor of the pool has returned, every task that was
\* pushed has been run and has returned, those pushed to a paused pool
\* included.
C24_DestroyedAllRan ==
  user.pc = "destroyed" =>
    \A t \in Pushed : tplog.started[t] = 1 /\ tplog.finished[t] = 1

\* A call of push_task has put its task at the end of tasks_.
Enqueued ==
  tplog'.pushed = tplog.pushed + 1 =>
    tp'.tasks_ = Append(tp.tasks_, tplog'.pushed)

\* The tasks in tasks_.
Queued == {tp.tasks_[i] : i \in DOMAIN tp.tasks_}

Threw(w) ==
  /\ threads[w].pc = "task"
  /\ tplog'.finished = tplog.finished
  /\ (threads'[w] # threads[w] \/ tplog'.terminated # tplog.terminated)

\* C26: an exception thrown by the task a worker runs does not leave the
\* worker: the process goes on, and the worker is where it is after a task
\* that returned, about to decrement tasks_total_ and to serve the next
\* task.
C26_ExceptionContained ==
  [][\A w \in Workers :
       Threw(w) => ~tplog'.terminated /\ threads'[w].pc = "done"]_vars

(***************************************************************************)
(* C28: idle expiry (specification Spec).                                  *)
(***************************************************************************)
\* The tasks of the server's timer for the connection conn (a task is
\* keyed by the fd), queued or executing.
IdleTasks(conn) ==
  KV_count(timer_.tasks_, conn)
    + (IF timer_.cur_task_ # nullptr /\ timer_.cur_task_id_ = conn
       THEN 1 ELSE 0)

InBlock(seg) ==
  /\ 0 <= seg.off
  /\ seg.off <= seg.cap
  /\ seg.off + seg.size <= seg.cap

\* C29: every Segment of every BufferVector lies within its block, and so
\* does every region of the read view.
C29_SegmentsInBlock ==
  \A b \in DOMAIN bufs :
    /\ \A k \in DOMAIN bufs[b].data_ : InBlock(bufs[b].data_[k])
    /\ \A k \in DOMAIN get_read_iovec(bufs[b]) :
         LET v == get_read_iovec(bufs[b])[k]
         IN  \A i \in DOMAIN v.bytes : v.bytes[i] # -1

(***************************************************************************)
(* C30: the error states of the parser (specification SpecParser).         *)
(***************************************************************************)
\* What read() can give a call of consume_from_fd now: atoms, or errno.
Reads ==
  {[n |-> n, errno |-> "EAGAIN"] : n \in 0..(Len(stream) - parser.wr)}
    \cup {[n |-> 0, errno |-> "EBADF"]}

\* C30: once a call of consume_from_fd has returned an error state, every
\* later call that returns gives that same error state and no request.
C30_ErrorsTerminal ==
  (pc = "idle" /\ is_error_state(ret.state)) =>
    \A rd \in Reads :
      LET r == consume_from_fd(parser, stream, rd.n, rd.errno)
      IN  r.ctl = "ret" => r.ret.state = ret.state /\ r.ret.req = nullptr

\* The blocks that object b holds in a readonly Segment.
ReadonlyBlocks(b) ==
  {bufs[b].data_[i].data :
     i \in {j \in 1..Len(bufs[b].data_) : bufs[b].data_[j].readonly}}

\* A write(src, n) step on b leaves the bytes of every readonly Segment of b
\* as they were.
ReadonlyKept(b) ==
  (bvlast'.op = "write" /\ bvlast'.buf = b /\ bvlog'[b].ops # bvlog[b].ops)
  => \A i \in 1..Len(bufs[b].data_) :
       bufs[b].data_[i].readonly
       => \E j \in 1..Len(bufs'[b].data_) :
            /\ bufs'[b].data_[j].data = bufs[b].data_[i].data
            /\ bufs'[b].data_[j].mem = bufs[b].data_[i].mem

\* C31: the write cursor of a BufferVector never rests on a readonly
\* Segment: get_write_iovec() exposes no byte of a readonly Segment for
\* writing, and write(src, n) changes no byte of one.
C31_ReadonlyNeverWritten ==
  /\ [](\A b \in Buffers :
          /\ bufs[b].it_write_ \in 1..Len(bufs[b].data_)
             => ~bufs[b].data_[bufs[b].it_write_].readonly
          /\ \A k \in 1..Len(get_write_iovec(bufs[b])) :
               get_write_iovec(bufs[b])[k].data \notin ReadonlyBlocks(b))
  /\ [][\A b \in Buffers : ReadonlyKept(b)]_vars

(***************************************************************************)
(* Properties of Buffer (specification SpecFlat).                          *)
(***************************************************************************)
\* begin_ptr_ points at the storage data_ owns, cap_ is its size, and
\* begin <= read pointer <= write pointer <= begin + capacity.
FlatSound(b) ==
  /\ b.begin_ptr_ = [block |-> b.data_.id, off |-> 0]
  /\ b.cap_ = b.data_.size
  /\ b.read_ptr_.block = b.data_.id
  /\ b.write_ptr_.block = b.data_.id
  /\ 0 <= b.read_ptr_.off
  /\ b.read_ptr_.off <= b.write_ptr_.off
  /\ b.write_ptr_.off <= b.cap_

\* C32: ensure_writeable(n) on a sound Buffer leaves writeable_size() >= n,
\* the readable bytes as they were and the Buffer sound; a round of the
\* parser's read loop on a sound Buffer reads into the Buffer's storage.
C32_EnsureWriteable ==
  [][(fblog'.calls # fblog.calls /\ FlatSound(fbuf))
     => /\ fblog'.op = "ensure_writeable"
           => /\ Buffer_writeable_size(fbuf') >= fblog'.n
              /\ Buffer_view(fbuf') = Buffer_view(fbuf)
              /\ FlatSound(fbuf')
        /\ fblog'.op = "read_fd"
           => /\ fblog'.got = Buffer_readable_size(fbuf')
                              - Buffer_readable_size(fbuf)
              /\ fblog'.got >= 1
              /\ ~fblog'.fault
              /\ FlatSound(fbuf')]_vars

(***************************************************************************)
(* Properties of KVHeap (specification SpecHeap).                          *)
(***************************************************************************)
\* key2index_ maps each stored key to its position, and nothing else.
Indexed(h) ==
  /\ DOMAIN h.key2index_ = KV_keys(h)
  /\ \A i \in 1..Len(h.heap_) : h.key2index_[h.heap_[i].key] = i - 1

\* C33: after any sequence of push, erase, update, update of all and pop,
\* no element of the heap precedes its parent and the key index maps each
\* stored key to its position; pop returns an element with the earliest
\* next_run_time.
C33_HeapOrdered ==
  /\ [](HeapOrdered(kv) /\ Indexed(kv))
  /\ [][(kvlog'.calls # kvlog.calls /\ kvlog'.op = "pop")
        => kvlog'.popped = kvlog'.least]_vars

\* The threads that have taken a task and not yet counted it as finished.
Executing == {w \in Workers : threads[w].pc \in {"task", "done"}}

\* C34: in every state the unfinished-task counter is the number of queued
\* tasks plus the number of tasks being executed; it does not wrap below
\* zero, get_tasks_running() is the number of tasks being executed, and
\* when wait_for_tasks has returned on an unpaused pool no task is queued
\* or being executed.
C34_CounterExact ==
  /\ tp.tasks_total_ = Len(tp.tasks_) + Cardinality(Executing)
  /\ tp.tasks_total_ >= 0
  /\ get_tasks_running(tp) = Cardinality(Executing)
  /\ (tplog.last = "waited" /\ ~tp.paused_)
     => tp.tasks_ = <<>> /\ Executing = {}

\* C35: destroy_threads always terminates: once it has been entered, every
\* thread of threads_ leaves worker and the joins return (or the process
\* has ended).
C35_DestroyTerminates ==
  (user.pc = "destroy_threads") ~> (user.pc = "destroyed" \/ tplog.terminated)

\* The step is a call of add with the id of the task whose callback is
\* being executed.
AddsExecutingId ==
  /\ tmlast'.calls # tmlast.calls
  /\ tmlast'.op = "add"
  /\ timer.cur_task_ # nullptr
  /\ tmlast'.id = timer.cur_task_id_

\* The step is the return of a callback whose task was not cancelled, has
\* no update waiting and has runs left.
RequeueDue ==
  /\ worker.pc = "calling" /\ worker'.pc = "locked"
  /\ ~timer.remove_cur_task_
  /\ timer.update_cur_task_ = nullptr
  /\ need_schedule(reduce_times(timer.cur_task_[1]))

\* C36: add with the id of the task being executed returns false, and a
\* task that is due to be queued again when its callback returns is in the
\* heap after the return.
C36_ExecutingIdInUse ==
  [][/\ AddsExecutingId => ~tmlast'.ret
     /\ RequeueDue =>
          CallbackOf(timer', timer.cur_task_id_)
            = timer.cur_task_[1].call_back]_vars

\* The step is the end of a reset.
ResetEnds == user.pc = "recreate" /\ (user'.pc = "idle" \/ tplog'.terminated)

\* C37: reset(n) leaves the queue and the paused flag as they were and
\* makes determine_thread_count(n) workers, held in an array of that size.
C37_ResetKeepsQueue ==
  [][ResetEnds =>
       /\ ~tplog'.terminated
       /\ ~tplog'.overrun
       /\ tp'.tasks_ = tplog.reset.tasks_
       /\ tp'.paused_ = tplog.reset.was_paused
       /\ tp'.thread_count_
            = determine_thread_count(tplog.reset.thread_count)
       /\ tp'.threads_ = tp'.thread_count_
       /\ Cardinality({w \in Workers : threads'[w].pc = "top"})
            = tp'.thread_count_]_vars

\* A header value that is a non-negative decimal integer.
IsDecimal(value) ==
  value # <<>> /\ \A i \in 1..Len(value) : value[i] \in DOMAIN Digits

\* The parse loop is at BEFORE_PARSING_REQUST_BODY with a Content-Length.
AtBodyLength ==
  /\ pc = "loop"
  /\ parser.state_ = "BEFORE_PARSING_REQUST_BODY"
  /\ CONTENT_LENGTH \in DOMAIN Deref(parser.obj_).header_

Occurrences(seq, x) == Cardinality({i \in 1..Len(seq) : seq[i] = x})

\* C39: a resource handed out is a resource of the pool, is not in the
\* free queue and is held by one caller only; when its handle is released
\* it is in the free queue once; and get does not block on res_mutex_.
C39_HandedOutOnce ==
  /\ [](/\ \A i \in 1..Len(rplog.out) :
             /\ rplog.out[i] \in 1..rpool.made
             /\ Occurrences(rpool.res_, rplog.out[i]) = 0
             /\ Occurrences(rplog.out, rplog.out[i]) = 1
        /\ ~rpool.stuck)
  /\ [][(rplog'.calls # rplog.calls /\ rplog'.op = "release")
        => Occurrences(rpool'.res_, rplog'.ret) = 1]_vars

(***************************************************************************)
(* Properties of INI::parse and Parser::parse_form (specification          *)
(* SpecText).                                                              *)
(***************************************************************************)
\* The pieces of a text: what stands before each delimiter, and what
\* follows the last one when that is not empty.
RECURSIVE Pieces(_, _)
Pieces(text, delim) ==
  IF text = <<>> THEN <<>>
  ELSE IF find_first_of(text, delim) = npos THEN <<text>>
  ELSE <<SubSeq(text, 1, find_first_of(text, delim))>>
       \o Pieces(substr(text, find_first_of(text, delim) + 1), delim)

Delimiter == IF txt.fn = "INI::parse" THEN LF ELSE "&"

\* C40: a getline call on a text that is not empty leaves less of it than
\* there was, so the loops end; and a call that returns its result has
\* processed every piece of the text once, the last one included.
C40_ParsesTerminate ==
  /\ [][(txt'.iters # txt.iters /\ txt.data # <<>>)
        => Len(txt'.data) < Len(txt.data)]_vars
  /\ [](txt.pc = "returned" => txt.seen = Pieces(txt.input, Delimiter))

=============================================================================
